---------------------------- MODULE Spec2Model ----------------------------
(***************************************************************************)
(* A model of the scraping pipeline of AI-scraper-using-mcp:               *)
(*   - the response recovery of InteractiveScraperService                  *)
(*     (tryParseJson, parseFromResponse),                                  *)
(*   - the chunked extraction loop of extractWithAI,                       *)
(*   - the browser service McpClientService (initialize, scrapeWebsite,    *)
(*     handleInfiniteScroll, isHealthy, close, cleanup),                   *)
(*   - the request orchestration processPromptRequest,                     *)
(*   - CsvExportService.exportToCsv and HtmlParserService.extractSections, *)
(*   - the heuristic extraction extractBasicData,                          *)
(*   - ScraperService.scrapeMultipleUrls.                                  *)
(*                                                                         *)
(* Text is modelled as a sequence of tokens.  A model response is a        *)
(* sequence of JSON punctuation tokens, key/value pair tokens, label       *)
(* tokens and prose tokens; page text is a sequence of characters.         *)
(***************************************************************************)
EXTENDS Integers, Sequences, FiniteSets, TLC

VARIABLES
    \* ---- parseFromResponse applied to one response
    aiResponse,     \* the response text handed to parseFromResponse
    ppc,            \* "start" before parseFromResponse ran, "done" after
    parseResult,    \* the value parseFromResponse returned
    \* ---- extractWithAI
    nodeEnvTest,    \* process.env.NODE_ENV === 'test'
    title,          \* scrapedData.title
    content,        \* scrapedData.content.text
    xpc,            \* position in extractWithAI
    chunkIdx,       \* number of chunks the for-loop has taken
    aggregated,     \* const aggregated: any[]
    seen,           \* const seen = new Set<string>()
    aiCalls,        \* invocations of ollamaService.processPrompt
    sent,           \* per chunk sent to processPrompt: what came back
    xresult,        \* what extractWithAI returned or threw
    \* ---- McpClientService
    callers,        \* the callers that use the service
    browser,        \* this.browser: 0 for null, else a launched browser
    isConnected,    \* this.isConnected
    browsers,       \* the browsers puppeteer.launch has produced
    pages,          \* the pages browser.newPage has produced
    nCalls,         \* scrapeWebsite and isHealthy calls started so far
    call,           \* per caller: the call in progress and its locals
    \* ---- InteractiveScraperService.processPromptRequest
    request,        \* the PromptScrapingRequest: outputFormat, outputPath
    rpc,            \* position in processPromptRequest and its callees
    isOllamaAvailable, \* const isOllamaAvailable of scrapeAndAnalyze
    acquisition,    \* how mcpClient.scrapeWebsite settled for the request
    rlog,           \* the collaborator methods invoked so far, in order
    csvCalls,       \* the record lists handed to csvExport.exportToCsv
    rresult,        \* what processPromptRequest settled with
    \* ---- CsvExportService.exportToCsv
    data,           \* data: any[], the records to export
    filename,       \* the filename argument
    dirExists,      \* fs.existsSync(outputDir)
    files,          \* the files written under outputDir
    cpc,            \* "start" before exportToCsv ran, "done" after
    cresult,        \* what exportToCsv returned or threw
    \* ---- HtmlParserService.extractSections
    html,           \* the elements of the document, in document order
    spc,            \* "start" before extractSections ran, "done" after
    sections,       \* const sections: ContentSection[]
    \* ---- InteractiveScraperService.extractBasicData
    scrapedData,    \* the scrapedData argument: url, title, content
    parsedPrompt,   \* the parsedPrompt argument: fields
    bpc,            \* "start" before extractBasicData ran, "done" after
    bdata,          \* const data: any[], returned when done
    \* ---- ScraperService.scrapeMultipleUrls
    urls,           \* the urls argument
    tasks,          \* scrapeTaskList: per url, where its scrapeAndAnalyze is
    rejections,     \* the tasks that rejected, in the order they did
    mpc,            \* position in scrapeMultipleUrls
    mresult         \* what scrapeMultipleUrls settled with

parseVars == <<aiResponse, ppc, parseResult>>
extractVars == <<nodeEnvTest, title, content, xpc, chunkIdx, aggregated, seen,
                 aiCalls, sent, xresult>>
mcpVars == <<callers, browser, isConnected, browsers, pages, nCalls, call>>
reqVars == <<request, rpc, isOllamaAvailable, acquisition, rlog, csvCalls,
            rresult>>
csvVars == <<data, filename, dirExists, files, cpc, cresult>>
segVars == <<html, spc, sections>>
basicVars == <<scrapedData, parsedPrompt, bpc, bdata>>
multiVars == <<urls, tasks, rejections, mpc, mresult>>
ioVars == <<csvVars, segVars, basicVars, multiVars>>
vars == <<parseVars, extractVars, mcpVars, reqVars, ioVars>>

-----------------------------------------------------------------------------
(***************************************************************************)
(* JSON values.  Every value is a record of the same shape:                *)
(*   kind  "obj" | "arr" | "str" | "null"                                  *)
(*   pairs the pair tokens of an object in insertion order                 *)
(*   elems the elements of an array                                        *)
(***************************************************************************)
NullV == [kind |-> "null", pairs |-> <<>>, elems |-> <<>>]
ObjV(ps) == [kind |-> "obj", pairs |-> ps, elems |-> <<>>]
ArrV(es) == [kind |-> "arr", pairs |-> <<>>, elems |-> es]
StrV(s) == [kind |-> "str", pairs |-> <<s>>, elems |-> <<>>]

\* "k=v" tokens: one "key": "value" member of an object literal
PairTokens == {"n=A", "n=B", "p=1", "p=2"}
PairKey == ("n=A" :> "n") @@ ("n=B" :> "n") @@ ("p=1" :> "p") @@ ("p=2" :> "p")
\* a JSON string literal standing alone as a value
StrTokens == {"s"}

\* the position of key k in a pair sequence, 0 when absent
RECURSIVE KeyIndex(_, _, _)
KeyIndex(ps, k, i) ==
    IF i > Len(ps) THEN 0
    ELSE IF PairKey[ps[i]] = k THEN i
    ELSE KeyIndex(ps, k, i + 1)

\* JSON.parse of an object member: a repeated key keeps its first position
\* and takes the last value
PutPair(ps, tok) ==
    LET at == KeyIndex(ps, PairKey[tok], 1)
    IN  IF at = 0 THEN Append(ps, tok) ELSE [ps EXCEPT ![at] = tok]

ParseFail == [ok |-> FALSE, val |-> NullV, next |-> 0]
ParseOk(v, n) == [ok |-> TRUE, val |-> v, next |-> n]

RECURSIVE ParseValue(_, _)
RECURSIVE ParseElems(_, _, _)
RECURSIVE ParsePairs(_, _, _)

ParseValue(t, i) ==
    IF i > Len(t) THEN ParseFail
    ELSE IF t[i] = "[" THEN
        IF i + 1 <= Len(t) /\ t[i + 1] = "]" THEN ParseOk(ArrV(<<>>), i + 2)
        ELSE ParseElems(t, i + 1, <<>>)
    ELSE IF t[i] = "{" THEN
        IF i + 1 <= Len(t) /\ t[i + 1] = "}" THEN ParseOk(ObjV(<<>>), i + 2)
        ELSE ParsePairs(t, i + 1, <<>>)
    ELSE IF t[i] \in StrTokens THEN ParseOk(StrV(t[i]), i + 1)
    ELSE ParseFail

ParseElems(t, i, acc) ==
    LET v == ParseValue(t, i)
    IN  IF ~v.ok THEN ParseFail
        ELSE LET acc2 == Append(acc, v.val)
                 j == v.next
             IN  IF j > Len(t) THEN ParseFail
                 ELSE IF t[j] = "]" THEN ParseOk(ArrV(acc2), j + 1)
                 ELSE IF t[j] = "," THEN ParseElems(t, j + 1, acc2)
                 ELSE ParseFail

ParsePairs(t, i, acc) ==
    IF i > Len(t) \/ t[i] \notin PairTokens THEN ParseFail
    ELSE LET acc2 == PutPair(acc, t[i])
             j == i + 1
         IN  IF j > Len(t) THEN ParseFail
             ELSE IF t[j] = "}" THEN ParseOk(ObjV(acc2), j + 1)
             ELSE IF t[j] = "," THEN ParsePairs(t, j + 1, acc2)
             ELSE ParseFail

\* JSON.parse: the whole text must be one value; a SyntaxError is ok = FALSE
JsonParse(t) ==
    LET v == ParseValue(t, 1)
    IN  IF v.ok /\ v.next = Len(t) + 1 THEN [ok |-> TRUE, val |-> v.val]
        ELSE [ok |-> FALSE, val |-> NullV]

\* s with the separator between consecutive parts
RECURSIVE Join(_, _)
Join(parts, sep) ==
    IF parts = <<>> THEN <<>>
    ELSE IF Len(parts) = 1 THEN parts[1]
    ELSE parts[1] \o sep \o Join(Tail(parts), sep)

\* JSON.stringify: members in insertion order
RECURSIVE JsonStringify(_)
JsonStringify(v) ==
    IF v.kind = "obj" THEN
        <<"{">> \o Join([i \in 1..Len(v.pairs) |-> <<v.pairs[i]>>], <<",">>) \o <<"}">>
    ELSE IF v.kind = "arr" THEN
        <<"[">> \o Join([i \in 1..Len(v.elems) |-> JsonStringify(v.elems[i])], <<",">>)
            \o <<"]">>
    ELSE IF v.kind = "str" THEN v.pairs
    ELSE <<"null">>

-----------------------------------------------------------------------------
(***************************************************************************)
(* tryParseJson and parseFromResponse                                      *)
(***************************************************************************)

\* str.replace(/,\s*X/g, 'X'): every comma directly before the token X goes
RECURSIVE DropCommaBefore(_, _)
DropCommaBefore(t, x) ==
    IF t = <<>> THEN <<>>
    ELSE IF Len(t) >= 2 /\ t[1] = "," /\ t[2] = x
         THEN <<x>> \o DropCommaBefore(SubSeq(t, 3, Len(t)), x)
         ELSE <<t[1]>> \o DropCommaBefore(Tail(t), x)

\* the cleaning of tryParseJson; tokens carry no whitespace, so the two
\* whitespace replacements leave the token sequence as it is
CleanJson(t) == DropCommaBefore(DropCommaBefore(t, "}"), "]")

tryParseJson(jsonString) ==
    LET first == JsonParse(jsonString)
    IN  IF first.ok THEN first.val
        ELSE LET second == JsonParse(CleanJson(jsonString))
             IN  IF second.ok THEN second.val ELSE NullV

Positions(t, x) == {i \in 1..Len(t) : t[i] = x}
Min(S) == CHOOSE m \in S : \A n \in S : m <= n
Max(S) == CHOOSE m \in S : \A n \in S : m >= n

\* str.match(/OPEN[\s\S]*CLOSE/): from the first OPEN that has a CLOSE after
\* it up to the last CLOSE (the star is greedy); found = FALSE for no match
GreedyMatch(t, open, close) ==
    LET opens == {i \in Positions(t, open) : \E j \in Positions(t, close) : j > i}
    IN  IF opens = {} THEN [found |-> FALSE, text |-> <<>>]
        ELSE [found |-> TRUE,
              text |-> SubSeq(t, Min(opens), Max(Positions(t, close)))]

\* const prefixes = [...]
prefixes == <<"JSON Array:", "Result:", "Data:", "Extracted Data:">>

\* the label tokens whose text contains the prefix p ('Data:' is also found
\* inside 'Extracted Data:')
LabelHits(p) == IF p = "Data:" THEN {"Data:", "Extracted Data:"} ELSE {p}

\* aiResponse.indexOf(prefix), 0 for -1
IndexOfLabel(t, p) ==
    LET at == {i \in 1..Len(t) : t[i] \in LabelHits(p)}
    IN  IF at = {} THEN 0 ELSE Min(at)

NoItems == [isNull |-> TRUE, items |-> <<>>]
Items(a) == [isNull |-> FALSE, items |-> a]

\* Method 3 of parseFromResponse, from the k-th prefix on
RECURSIVE FromPrefixes(_, _)
FromPrefixes(t, k) ==
    IF k > Len(prefixes) THEN NoItems
    ELSE LET idx == IndexOfLabel(t, prefixes[k])
         IN  IF idx = 0 THEN FromPrefixes(t, k + 1)
             ELSE LET after == SubSeq(t, idx + 1, Len(t))
                      m == GreedyMatch(after, "[", "]")
                      arr == IF m.found THEN tryParseJson(m.text) ELSE NullV
                  IN  IF arr.kind = "arr" THEN Items(arr.elems)
                      ELSE FromPrefixes(t, k + 1)

\* Method 2 of parseFromResponse, then Method 3
FromObject(t) ==
    LET objMatch == GreedyMatch(t, "{", "}")
        obj == IF objMatch.found THEN tryParseJson(objMatch.text) ELSE NullV
    IN  IF obj.kind \in {"obj", "str"} THEN Items(<<obj>>)
        ELSE IF obj.kind = "arr" THEN Items(obj.elems)
        ELSE FromPrefixes(t, 1)

parseFromResponse(t) ==
    LET arrayMatch == GreedyMatch(t, "[", "]")
        arr == IF arrayMatch.found THEN tryParseJson(arrayMatch.text) ELSE NullV
    IN  IF arr.kind = "arr" THEN Items(arr.elems)
        ELSE FromObject(t)

-----------------------------------------------------------------------------
(***************************************************************************)
(* Model responses: up to MaxSegs pieces, each a well-formed or broken     *)
(* array, an object, a lead-in label or prose.                             *)
(***************************************************************************)
MaxSegs == 3
MaxAiSegs == 2

SegArrA == <<"[", "{", "n=A", ",", "p=1", "}", "]">>
SegArrA2 == <<"[", "{", "p=1", ",", "n=A", "}", "]">>
SegArrBA == <<"[", "{", "n=B", "}", ",", "{", "n=A", ",", "p=1", "}", "]">>
SegTrailing == <<"[", "{", "n=A", ",", "}", ",", "]">>
SegEmptyArr == <<"[", "]">>
SegObj == <<"{", "n=B", ",", "n=A", "}">>
SegResult == <<"Result:">>
SegProse == <<"t">>

Segments == {SegArrA, SegArrA2, SegArrBA, SegTrailing, SegEmptyArr, SegObj,
             SegResult, SegProse}

RECURSIVE ResponsesUpTo(_)
ResponsesUpTo(n) ==
    IF n = 0 THEN {<<>>}
    ELSE LET shorter == ResponsesUpTo(n - 1)
         IN  shorter \cup {r \o s : r \in shorter, s \in Segments}

Responses == ResponsesUpTo(MaxSegs)
AiResponses == ResponsesUpTo(MaxAiSegs)

\* every response a chunk can get, with what parseFromResponse makes of it
AiParsed == {<<r, parseFromResponse(r)>> : r \in AiResponses}
AiOutcomes == {p[2] : p \in AiParsed}

-----------------------------------------------------------------------------
(***************************************************************************)
(* parseFromResponse on one response                                       *)
(***************************************************************************)
ParseIdle ==
    /\ aiResponse = <<>>
    /\ ppc = "idle"
    /\ parseResult = NoItems

InitParseVars ==
    /\ aiResponse \in Responses
    /\ ppc = "start"
    /\ parseResult = NoItems

ParseResponse ==
    /\ ppc = "start"
    /\ parseResult' = parseFromResponse(aiResponse)
    /\ ppc' = "done"
    /\ UNCHANGED <<aiResponse, extractVars, mcpVars, reqVars, ioVars>>

-----------------------------------------------------------------------------
(***************************************************************************)
(* extractWithAI                                                           *)
(***************************************************************************)
MaxContentLen == 3
\* const chunkSize = 3500, scaled to the model's text lengths
ChunkSize == 2
\* minContentLength outside tests (100), scaled to the model's text lengths
MinContentLength == 2

\* 'Just a moment' and 'Checking your browser', as character sequences
SigJustAMoment == <<"J", "m">>
SigCheckingYourBrowser == <<"C", "b">>

Chars == {"J", "m", "C", "b"}
RECURSIVE TextsUpTo(_)
TextsUpTo(n) ==
    IF n = 0 THEN {<<>>}
    ELSE LET shorter == TextsUpTo(n - 1)
         IN  shorter \cup {Append(t, c) : t \in shorter, c \in Chars}

Contents == TextsUpTo(MaxContentLen)
Titles == {<<>>, <<"J", "m", "b">>, <<"m", "C", "b">>, <<"b", "m">>}

\* String.prototype.includes
Includes(text, sig) ==
    \E i \in 1..(Len(text) - Len(sig) + 1) : SubSeq(text, i, i + Len(sig) - 1) = sig

minContentLength(env) == IF env THEN 0 ELSE MinContentLength

\* the gate with the two tests of the page text left out
Insufficient_TitleOnly(env, ttl, cnt) ==
    \/ Len(cnt) < minContentLength(env)
    \/ Includes(ttl, SigJustAMoment)
    \/ Includes(ttl, SigCheckingYourBrowser)

\* the condition of the sufficiency gate (lines 190-196)
Insufficient(env, ttl, cnt) ==
    \/ Len(cnt) < minContentLength(env)
    \/ Includes(ttl, SigJustAMoment)
    \/ Includes(ttl, SigCheckingYourBrowser)
    \/ Includes(cnt, SigJustAMoment)
    \/ Includes(cnt, SigCheckingYourBrowser)

\* the chunking loop with windows that start one character early
RECURSIVE ChunksFrom_Overlap(_, _)
ChunksFrom_Overlap(cnt, i) ==
    IF i >= Len(cnt) THEN <<>>
    ELSE LET end == IF i + ChunkSize < Len(cnt) THEN i + ChunkSize ELSE Len(cnt)
             start == IF i > 0 THEN i ELSE i + 1
         IN  <<SubSeq(cnt, start, end)>> \o ChunksFrom_Overlap(cnt, i + ChunkSize)

\* for (let i = 0; i < content.length; i += chunkSize) chunks.push(...)
RECURSIVE ChunksFrom(_, _)
ChunksFrom(cnt, i) ==
    IF i >= Len(cnt) THEN <<>>
    ELSE LET end == IF i + ChunkSize < Len(cnt) THEN i + ChunkSize ELSE Len(cnt)
         IN  <<SubSeq(cnt, i + 1, end)>> \o ChunksFrom(cnt, i + ChunkSize)

Chunks(cnt) == ChunksFrom(cnt, 0)

\* const key = JSON.stringify(item)
DedupKey(item) == JsonStringify(item)

\* the inner loop without the seen.has(key) test
RECURSIVE AggregateItems_NoSeenTest(_, _, _)
AggregateItems_NoSeenTest(agg, seenKeys, items) ==
    IF items = <<>> THEN [agg |-> agg, seen |-> seenKeys]
    ELSE AggregateItems_NoSeenTest(Append(agg, Head(items)),
                                   seenKeys \cup {DedupKey(Head(items))},
                                   Tail(items))

\* the inner loop over one chunk's items (lines 289-297)
RECURSIVE AggregateItems(_, _, _)
AggregateItems(agg, seenKeys, items) ==
    IF items = <<>> THEN [agg |-> agg, seen |-> seenKeys]
    ELSE LET key == DedupKey(Head(items))
         IN  IF key \notin seenKeys
             THEN AggregateItems(Append(agg, Head(items)), seenKeys \cup {key},
                                 Tail(items))
             ELSE AggregateItems(agg, seenKeys, Tail(items))

Pending == [kind |-> "pending", records |-> <<>>, error |-> ""]
Returned(rs) == [kind |-> "returned", records |-> rs, error |-> ""]
Thrown(e) == [kind |-> "thrown", records |-> <<>>, error |-> e]

ExtractIdle ==
    /\ nodeEnvTest = FALSE
    /\ title = <<>>
    /\ content = <<>>
    /\ xpc = "idle"
    /\ chunkIdx = 0
    /\ aggregated = <<>>
    /\ seen = {}
    /\ aiCalls = 0
    /\ sent = <<>>
    /\ xresult = Pending

InitExtractVars ==
    /\ nodeEnvTest \in BOOLEAN
    /\ title \in Titles
    /\ content \in Contents
    /\ xpc = "start"
    /\ chunkIdx = 0
    /\ aggregated = <<>>
    /\ seen = {}
    /\ aiCalls = 0
    /\ sent = <<>>
    /\ xresult = Pending

\* what follows the for-loop (lines 300-303)
AfterLoop(agg) ==
    IF Len(agg) > 0 THEN Returned(agg)
    ELSE Thrown("AI response does not contain valid JSON array")

\* entry up to the first await: the gate, the chunking, the first request
ExtractStart ==
    /\ xpc = "start"
    /\ IF Insufficient(nodeEnvTest, title, content)
       THEN /\ xpc' = "done"
            /\ xresult' = Returned(<<>>)
            /\ UNCHANGED aiCalls
       ELSE IF Chunks(content) = <<>>
       THEN /\ xpc' = "done"
            /\ xresult' = AfterLoop(aggregated)
            /\ UNCHANGED aiCalls
       ELSE /\ xpc' = "awaiting"
            /\ aiCalls' = aiCalls + 1
            /\ UNCHANGED xresult
    /\ UNCHANGED <<nodeEnvTest, title, content, chunkIdx, aggregated, seen, sent,
                   parseVars, ioVars, mcpVars, reqVars>>

\* the chunk the pending processPrompt call was given (buildPrompt(chunk))
ChunkInFlight == Chunks(content)[chunkIdx + 1]

\* the loop with an unparseable response ending the extraction
ChunkResolved_AbortOnNull ==
    /\ xpc = "awaiting"
    /\ \E items \in AiOutcomes :
         LET take == ~items.isNull /\ Len(items.items) > 0
             acc == IF take THEN AggregateItems(aggregated, seen, items.items)
                    ELSE [agg |-> aggregated, seen |-> seen]
             last == chunkIdx + 1 = Len(Chunks(content))
         IN  /\ sent' = Append(sent, [rejected |-> FALSE, out |-> items,
                                      chunk |-> ChunkInFlight])
             /\ aggregated' = acc.agg
             /\ seen' = acc.seen
             /\ chunkIdx' = chunkIdx + 1
             /\ IF items.isNull
                THEN /\ xpc' = "done"
                     /\ xresult' = Thrown("AI response does not contain valid JSON array")
                     /\ UNCHANGED aiCalls
                ELSE IF last
                THEN /\ xpc' = "done"
                     /\ xresult' = AfterLoop(acc.agg)
                     /\ UNCHANGED aiCalls
                ELSE /\ xpc' = "awaiting"
                     /\ aiCalls' = aiCalls + 1
                     /\ UNCHANGED xresult
    /\ UNCHANGED <<nodeEnvTest, title, content, parseVars, ioVars, mcpVars, reqVars>>

\* processPrompt resolves for the chunk in flight: parse, aggregate, and
\* either request the next chunk or leave the loop
ChunkResolved ==
    /\ xpc = "awaiting"
    /\ \E items \in AiOutcomes :
         LET take == ~items.isNull /\ Len(items.items) > 0
             acc == IF take THEN AggregateItems(aggregated, seen, items.items)
                    ELSE [agg |-> aggregated, seen |-> seen]
             last == chunkIdx + 1 = Len(Chunks(content))
         IN  /\ sent' = Append(sent, [rejected |-> FALSE, out |-> items,
                                      chunk |-> ChunkInFlight])
             /\ aggregated' = acc.agg
             /\ seen' = acc.seen
             /\ chunkIdx' = chunkIdx + 1
             /\ IF last
                THEN /\ xpc' = "done"
                     /\ xresult' = AfterLoop(acc.agg)
                     /\ UNCHANGED aiCalls
                ELSE /\ xpc' = "awaiting"
                     /\ aiCalls' = aiCalls + 1
                     /\ UNCHANGED xresult
    /\ UNCHANGED <<nodeEnvTest, title, content, parseVars, ioVars, mcpVars, reqVars>>

\* processPrompt rejects for the chunk in flight: the catch rethrows
ChunkRejected ==
    /\ xpc = "awaiting"
    /\ sent' = Append(sent, [rejected |-> TRUE, out |-> NoItems,
                             chunk |-> ChunkInFlight])
    /\ chunkIdx' = chunkIdx + 1
    /\ xpc' = "done"
    /\ xresult' = Thrown("AI processing failed")
    /\ UNCHANGED <<nodeEnvTest, title, content, aggregated, seen, aiCalls,
                   parseVars, ioVars, mcpVars, reqVars>>

-----------------------------------------------------------------------------
(***************************************************************************)
(* McpClientService.  Every await of the service is a position of the      *)
(* call: an action is the arrival of what the call waits for, followed by  *)
(* the code up to the next await.                                          *)
(***************************************************************************)
MaxScrolls == 2
MaxCalls == 2
MaxLaunches == 2
\* document.documentElement.clientHeight of the page
ClientHeight == 600
\* the "- 10" of the canScrollMore test
Epsilon == 10

\* scrollHeight of a page after navigation
InitialHeights == {ClientHeight, 2 * ClientHeight}
\* what the document gains while the call waits scrollDelay
Growths == {0, 5, 11}

AllCallers == {1, 2}

Options == [maxScrolls : 0..MaxScrolls, viewport : BOOLEAN,
            userAgent : BOOLEAN, waitForNetworkIdle : BOOLEAN]
NoOptions == [maxScrolls |-> 0, viewport |-> FALSE, userAgent |-> FALSE,
              waitForNetworkIdle |-> FALSE]

NoResult == [state |-> "none", success |-> FALSE, wrapped |-> FALSE, cause |-> ""]
\* return { ..., success: true }
Resolved(ok) == [state |-> "resolved", success |-> ok, wrapped |-> FALSE, cause |-> ""]
\* a rejection; wrapped: new Error(`Puppeteer scraping failed: ${error.message}`)
Rejected(w, e) == [state |-> "rejected", success |-> FALSE, wrapped |-> w, cause |-> e]

IdleCall == [op |-> "none", pc |-> "idle", id |-> 0, opts |-> NoOptions, brw |-> 0,
             page |-> 0, log |-> <<>>, iter |-> 0, heights |-> <<>>,
             raised |-> "", outcome |-> "none", result |-> NoResult]

Ev(e, ok) == [ev |-> e, ok |-> ok]
Logged(k, e, ok) == [k EXCEPT !.log = Append(@, Ev(e, ok))]

\* the outer catch with no finally block after it
Catch_NoFinally(k, cause) ==
    [k EXCEPT !.raised = cause, !.outcome = "failure", !.pc = "done",
              !.result = Rejected(TRUE, cause)]

\* the outer catch (lines 153-155) and the finally after it (156-160):
\* with a page the call goes on to await page.close()
Catch(k, cause) ==
    IF k.page # 0
    THEN [k EXCEPT !.raised = cause, !.outcome = "failure", !.pc = "pageClose"]
    ELSE [k EXCEPT !.raised = cause, !.outcome = "failure", !.pc = "done",
                   !.result = Rejected(TRUE, cause)]

\* the return of lines 141-152 and the finally after it
Succeed(k) == [k EXCEPT !.outcome = "success", !.pc = "pageClose"]

\* lines 115-130: into the scroll loop, or straight to the page data
AfterNavigation(k) ==
    IF k.opts.maxScrolls > 0 THEN [k EXCEPT !.pc = "scrollTo", !.iter = 0]
    ELSE [k EXCEPT !.pc = "evaluate"]

\* lines 75-82
AfterViewport(k) ==
    IF k.opts.userAgent THEN [k EXCEPT !.pc = "setUserAgent"]
    ELSE [k EXCEPT !.pc = "goto1"]

\* lines 70-73
AfterNewPage(k) ==
    IF k.opts.viewport THEN [k EXCEPT !.pc = "setViewport"]
    ELSE AfterViewport(k)

\* waitUntil of the first page.goto (lines 83-85)
FirstWaitUntil(o) == IF o.waitForNetworkIdle THEN "networkidle2" ELSE "domcontentloaded"

\* line 68: this.browser!.newPage(); on null the property access throws
\* inside the try
RequestNewPage(k, b) ==
    IF b = 0 THEN Catch(Logged(k, "newPage", FALSE), "browserNull")
    ELSE [k EXCEPT !.pc = "newPage", !.brw = b]

PageAlive(p) ==
    /\ p # 0
    /\ pages[p].open
    /\ browsers[pages[p].browser] = "open"

McpIdle ==
    /\ callers = {}
    /\ browser = 0
    /\ isConnected = FALSE
    /\ browsers = <<>>
    /\ pages = <<>>
    /\ nCalls = 0
    /\ call = [c \in AllCallers |-> IdleCall]

InitMcpVars ==
    /\ callers = {1}
    /\ browser = 0
    /\ isConnected = FALSE
    /\ browsers = <<>>
    /\ pages = <<>>
    /\ nCalls = 0
    /\ call = [c \in AllCallers |-> IdleCall]

McpFrame == UNCHANGED <<parseVars, ioVars, extractVars, callers, reqVars>>

\* scrapeWebsite up to its first await (lines 54-68), initialize up to
\* puppeteer.launch included (lines 19-27)
ScrapeWebsite(c, o) ==
    /\ c \in callers
    /\ call[c].pc = "idle"
    /\ nCalls < MaxCalls
    /\ nCalls' = nCalls + 1
    /\ LET k == [IdleCall EXCEPT !.op = "scrape", !.id = nCalls + 1, !.opts = o]
       IN  IF browser = 0 \/ ~isConnected
           THEN IF isConnected
                THEN call' = [call EXCEPT ![c] = [k EXCEPT !.pc = "initialized"]]
                ELSE /\ Len(browsers) < MaxLaunches
                     /\ call' = [call EXCEPT ![c] = [k EXCEPT !.pc = "launch"]]
           ELSE call' = [call EXCEPT ![c] = RequestNewPage(k, browser)]
    /\ UNCHANGED <<browser, isConnected, browsers, pages>>
    /\ McpFrame

\* initialize with a catch that logs and does not rethrow
LaunchSettled_NoRethrow(c) ==
    /\ call[c].pc = "launch"
    /\ \/ /\ browsers' = Append(browsers, "open")
          /\ browser' = Len(browsers) + 1
          /\ isConnected' = TRUE
          /\ call' = [call EXCEPT ![c] =
                        [Logged(@, "launch", TRUE) EXCEPT !.pc = "initialized"]]
       \/ /\ call' = [call EXCEPT ![c] =
                        [Logged(@, "launch", FALSE) EXCEPT !.pc = "initialized"]]
          /\ UNCHANGED <<browser, isConnected, browsers>>
    /\ UNCHANGED <<pages, nCalls>>
    /\ McpFrame

\* puppeteer.launch settles (lines 27-51)
LaunchSettled(c) ==
    /\ call[c].pc = "launch"
    /\ \/ /\ browsers' = Append(browsers, "open")
          /\ browser' = Len(browsers) + 1
          /\ isConnected' = TRUE
          /\ call' = [call EXCEPT ![c] =
                        [Logged(@, "launch", TRUE) EXCEPT !.pc = "initialized"]]
       \/ /\ call' = [call EXCEPT ![c] =
                        [Logged(@, "launch", FALSE) EXCEPT
                            !.pc = "done", !.raised = "launch",
                            !.outcome = "failure",
                            !.result = Rejected(FALSE, "launch")]]
          /\ UNCHANGED <<browser, isConnected, browsers>>
    /\ UNCHANGED <<pages, nCalls>>
    /\ McpFrame

\* await this.initialize() is over: lines 61-68
InitializeReturned(c) ==
    /\ call[c].pc = "initialized"
    /\ call' = [call EXCEPT ![c] = RequestNewPage(@, browser)]
    /\ UNCHANGED <<browser, isConnected, browsers, pages, nCalls>>
    /\ McpFrame

\* browser.newPage settles: the page lives in the default context of the
\* browser, the only context the service ever uses
NewPageSettled(c) ==
    /\ call[c].pc = "newPage"
    /\ LET k == call[c]
       IN  \/ /\ browsers[k.brw] = "open"
              /\ pages' = Append(pages,
                     [browser |-> k.brw, context |-> k.brw, callId |-> k.id,
                      open |-> TRUE, closeCalled |-> FALSE, closeFailed |-> FALSE,
                      callDone |-> FALSE, scrollTop |-> 0, scrollHeight |-> 0,
                      challenge |-> FALSE])
              /\ call' = [call EXCEPT ![c] =
                     AfterNewPage([Logged(k, "newPage", TRUE) EXCEPT
                                      !.page = Len(pages) + 1])]
           \/ /\ call' = [call EXCEPT ![c] =
                     Catch(Logged(k, "newPage", FALSE), "newPage")]
              /\ UNCHANGED pages
    /\ UNCHANGED <<browser, isConnected, browsers, nCalls>>
    /\ McpFrame

\* page.setViewport settles (line 72)
SetViewportSettled(c) ==
    /\ call[c].pc = "setViewport"
    /\ LET k == call[c]
       IN  \/ /\ PageAlive(k.page)
              /\ call' = [call EXCEPT ![c] =
                     AfterViewport(Logged(k, "setViewport", TRUE))]
           \/ call' = [call EXCEPT ![c] =
                     Catch(Logged(k, "setViewport", FALSE), "setViewport")]
    /\ UNCHANGED <<browser, isConnected, browsers, pages, nCalls>>
    /\ McpFrame

\* page.setUserAgent settles (line 77)
SetUserAgentSettled(c) ==
    /\ call[c].pc = "setUserAgent"
    /\ LET k == call[c]
       IN  \/ /\ PageAlive(k.page)
              /\ call' = [call EXCEPT ![c] =
                     [Logged(k, "setUserAgent", TRUE) EXCEPT !.pc = "goto1"]]
           \/ call' = [call EXCEPT ![c] =
                     Catch(Logged(k, "setUserAgent", FALSE), "setUserAgent")]
    /\ UNCHANGED <<browser, isConnected, browsers, pages, nCalls>>
    /\ McpFrame

\* the document a navigation loads: its height, and whether its title holds
\* 'Just a moment' or 'Checking your browser'
Loaded(p, h, ch) ==
    [pages EXCEPT ![p].scrollTop = 0, ![p].scrollHeight = h, ![p].challenge = ch]

\* the first page.goto without the inner catch: its failure is final
GotoSettled_NoFallback(c) ==
    /\ call[c].pc = "goto1"
    /\ LET k == call[c]
           e == "goto:" \o FirstWaitUntil(k.opts)
       IN  \/ /\ PageAlive(k.page)
              /\ \E h \in InitialHeights, ch \in BOOLEAN :
                    pages' = Loaded(k.page, h, ch)
              /\ call' = [call EXCEPT ![c] =
                     [Logged(k, e, TRUE) EXCEPT !.pc = "settle1"]]
           \/ /\ call' = [call EXCEPT ![c] = Catch(Logged(k, e, FALSE), "navigation")]
              /\ UNCHANGED pages
    /\ UNCHANGED <<browser, isConnected, browsers, nCalls>>
    /\ McpFrame

\* the first page.goto settles (lines 82-87); a failure enters the inner
\* catch, which issues the fallback page.goto (lines 103-111)
GotoSettled(c) ==
    /\ call[c].pc = "goto1"
    /\ LET k == call[c]
           e == "goto:" \o FirstWaitUntil(k.opts)
       IN  \/ /\ PageAlive(k.page)
              /\ \E h \in InitialHeights, ch \in BOOLEAN :
                    pages' = Loaded(k.page, h, ch)
              /\ call' = [call EXCEPT ![c] =
                     [Logged(k, e, TRUE) EXCEPT !.pc = "settle1"]]
           \/ /\ call' = [call EXCEPT ![c] =
                     [Logged(k, e, FALSE) EXCEPT !.pc = "goto2"]]
              /\ UNCHANGED pages
    /\ UNCHANGED <<browser, isConnected, browsers, nCalls>>
    /\ McpFrame

\* one of the fixed waits is over: 3000 ms after the first navigation
\* (line 90), 10000 ms on a challenge title (line 101), 5000 ms after the
\* fallback navigation (line 112)
TimerFired(c) ==
    /\ call[c].pc \in {"settle1", "antibot", "settle2"}
    /\ LET k == call[c]
       IN  call' = [call EXCEPT ![c] =
              IF k.pc = "settle1"
              THEN [Logged(k, "wait:3000", TRUE) EXCEPT !.pc = "title"]
              ELSE IF k.pc = "antibot"
              THEN AfterNavigation(Logged(k, "wait:10000", TRUE))
              ELSE AfterNavigation(Logged(k, "wait:5000", TRUE))]
    /\ UNCHANGED <<browser, isConnected, browsers, pages, nCalls>>
    /\ McpFrame

\* page.title settles (lines 93-102): a challenge title brings the 10 s
\* wait; it is inside the inner try, so a failure also leads to the fallback
\* page.goto
TitleSettled(c) ==
    /\ call[c].pc = "title"
    /\ LET k == call[c]
       IN  \/ /\ PageAlive(k.page)
              /\ call' = [call EXCEPT ![c] =
                     IF pages[k.page].challenge
                     THEN [Logged(k, "title:challenge", TRUE) EXCEPT !.pc = "antibot"]
                     ELSE AfterNavigation(Logged(k, "title", TRUE))]
           \/ call' = [call EXCEPT ![c] =
                     [Logged(k, "title", FALSE) EXCEPT !.pc = "goto2"]]
    /\ UNCHANGED <<browser, isConnected, browsers, pages, nCalls>>
    /\ McpFrame

\* the fallback page.goto settles (lines 108-112)
FallbackGotoSettled(c) ==
    /\ call[c].pc = "goto2"
    /\ LET k == call[c]
       IN  \/ /\ PageAlive(k.page)
              /\ \E h \in InitialHeights, ch \in BOOLEAN :
                    pages' = Loaded(k.page, h, ch)
              /\ call' = [call EXCEPT ![c] =
                     [Logged(k, "goto:load", TRUE) EXCEPT !.pc = "settle2"]]
           \/ /\ call' = [call EXCEPT ![c] =
                     Catch(Logged(k, "goto:load", FALSE), "navigation")]
              /\ UNCHANGED pages
    /\ UNCHANGED <<browser, isConnected, browsers, nCalls>>
    /\ McpFrame

\* window.scrollTo(0, document.body.scrollHeight): the scroll position is
\* clamped to the last full viewport
ScrolledToBottom(pg) ==
    IF pg.scrollHeight > ClientHeight THEN pg.scrollHeight - ClientHeight ELSE 0

\* the evaluate of the scrollTo settles (lines 174-176)
ScrollToSettled(c) ==
    /\ call[c].pc = "scrollTo"
    /\ LET k == call[c]
       IN  \/ /\ PageAlive(k.page)
              /\ pages' = [pages EXCEPT ![k.page].scrollTop =
                                            ScrolledToBottom(pages[k.page])]
              /\ call' = [call EXCEPT ![c] =
                     [Logged(k, "scrollTo", TRUE) EXCEPT
                         !.pc = "scrollWait",
                         !.heights = IF @ = <<>> THEN <<pages[k.page].scrollHeight>>
                                     ELSE @]]
           \/ /\ call' = [call EXCEPT ![c] =
                     Catch(Logged(k, "scrollTo", FALSE), "scroll")]
              /\ UNCHANGED pages
    /\ UNCHANGED <<browser, isConnected, browsers, nCalls>>
    /\ McpFrame

\* scrollDelay is over (line 179); the document has grown meanwhile, or not
ScrollDelayElapsed(c) ==
    /\ call[c].pc = "scrollWait"
    /\ LET k == call[c]
       IN  /\ \E g \in Growths :
                 pages' = [pages EXCEPT ![k.page].scrollHeight = @ + g]
           /\ call' = [call EXCEPT ![c] =
                  [Logged(k, "wait:scrollDelay", TRUE) EXCEPT !.pc = "scrollCheck"]]
    /\ UNCHANGED <<browser, isConnected, browsers, nCalls>>
    /\ McpFrame

\* the test without its 10 px margin
canScrollMore_NoMargin(pg) == pg.scrollTop + ClientHeight < pg.scrollHeight

\* scrollTop + clientHeight < scrollHeight - 10 (lines 182-186)
canScrollMore(pg) == pg.scrollTop + ClientHeight < pg.scrollHeight - Epsilon

\* the evaluate of canScrollMore settles: break, next iteration, or the end
\* of the for-loop (lines 172, 182-194)
ScrollCheckSettled(c) ==
    /\ call[c].pc = "scrollCheck"
    /\ LET k == call[c]
           seen1 == [Logged(k, "canScrollMore", TRUE) EXCEPT
                        !.iter = @ + 1,
                        !.heights = Append(@, pages[k.page].scrollHeight)]
       IN  \/ /\ PageAlive(k.page)
              /\ call' = [call EXCEPT ![c] =
                     IF ~canScrollMore(pages[k.page]) THEN [seen1 EXCEPT !.pc = "evaluate"]
                     ELSE IF seen1.iter < k.opts.maxScrolls
                     THEN [seen1 EXCEPT !.pc = "scrollTo"]
                     ELSE [seen1 EXCEPT !.pc = "evaluate"]]
           \/ call' = [call EXCEPT ![c] =
                     Catch(Logged(k, "canScrollMore", FALSE), "scroll")]
    /\ UNCHANGED <<browser, isConnected, browsers, pages, nCalls>>
    /\ McpFrame

\* the evaluate that reads title, text, html and url settles (lines 130-152)
EvaluateSettled(c) ==
    /\ call[c].pc = "evaluate"
    /\ LET k == call[c]
       IN  \/ /\ PageAlive(k.page)
              /\ call' = [call EXCEPT ![c] = Succeed(Logged(k, "evaluate", TRUE))]
           \/ call' = [call EXCEPT ![c] =
                     Catch(Logged(k, "evaluate", FALSE), "evaluate")]
    /\ UNCHANGED <<browser, isConnected, browsers, pages, nCalls>>
    /\ McpFrame

\* a page the call has let go of: its document is of no further interest
Unloaded(pg) == [pg EXCEPT !.scrollTop = 0, !.scrollHeight = 0, !.challenge = FALSE]

\* what the finally block leaves of the try/catch outcome (lines 141-160)
Delivered(k) ==
    IF k.outcome = "success" THEN Resolved(TRUE) ELSE Rejected(TRUE, k.raised)

\* await page.close() in the finally block settles (lines 156-160); a
\* rejection there replaces whatever the try or the catch had settled, and
\* leaves the page open or not
PageCloseSettled(c) ==
    /\ call[c].pc = "pageClose"
    /\ LET k == call[c]
       IN  \/ /\ pages' = [pages EXCEPT ![k.page] =
                            [Unloaded(@) EXCEPT !.open = FALSE,
                                                !.closeCalled = TRUE,
                                                !.callDone = TRUE]]
              /\ call' = [call EXCEPT ![c] =
                     [Logged(k, "page.close", TRUE) EXCEPT
                         !.pc = "done", !.result = Delivered(k)]]
           \/ /\ \E stillOpen \in BOOLEAN :
                    pages' = [pages EXCEPT ![k.page] =
                                [Unloaded(@) EXCEPT !.open = @ /\ stillOpen,
                                                    !.closeCalled = TRUE,
                                                    !.closeFailed = TRUE,
                                                    !.callDone = TRUE]]
              /\ call' = [call EXCEPT ![c] =
                     [Logged(k, "page.close", FALSE) EXCEPT
                         !.pc = "done", !.result = Rejected(FALSE, "pageClose")]]
    /\ UNCHANGED <<browser, isConnected, browsers, nCalls>>
    /\ McpFrame

\* close() up to browser.close() (lines 214-217); cleanup() is close()
\* inside a try (lines 227-229)
Close(c, op) ==
    /\ c \in callers
    /\ call[c].pc = "idle"
    /\ op \in {"close", "cleanup"}
    /\ LET k == [IdleCall EXCEPT !.op = op]
       IN  call' = [call EXCEPT ![c] =
              IF browser # 0 THEN [k EXCEPT !.pc = "browserClose", !.brw = browser]
              ELSE [k EXCEPT !.pc = "done", !.result = Resolved(TRUE)]]
    /\ UNCHANGED <<browser, isConnected, browsers, pages, nCalls>>
    /\ McpFrame

\* the pages once browser b is gone
ClosedWith(b) ==
    [p \in 1..Len(pages) |->
        IF pages[p].browser = b THEN [pages[p] EXCEPT !.open = FALSE]
        ELSE pages[p]]

\* browser.close() settling with only this.browser reset
BrowserCloseSettled_KeepConnected(c) ==
    /\ call[c].pc = "browserClose"
    /\ LET k == call[c]
       IN  \/ /\ browsers' = [browsers EXCEPT ![k.brw] = "closed"]
              /\ pages' = ClosedWith(k.brw)
              /\ browser' = 0
              /\ UNCHANGED isConnected
              /\ call' = [call EXCEPT ![c] =
                     [Logged(k, "browser.close", TRUE) EXCEPT
                         !.pc = "done", !.result = Resolved(TRUE)]]
           \/ /\ \/ UNCHANGED <<browsers, pages>>
                 \/ /\ browsers' = [browsers EXCEPT ![k.brw] = "closed"]
                    /\ pages' = ClosedWith(k.brw)
              /\ call' = [call EXCEPT ![c] =
                     [Logged(k, "browser.close", FALSE) EXCEPT
                         !.pc = "done", !.raised = "browserClose",
                         !.result = Resolved(TRUE)]]
              /\ UNCHANGED <<browser, isConnected>>
    /\ UNCHANGED nCalls
    /\ McpFrame

\* browser.close() settles (lines 217-223): a closed browser takes its
\* pages with it; a rejection is logged and swallowed, this.browser and
\* isConnected stay as they are, and the browser is still there or not
BrowserCloseSettled(c) ==
    /\ call[c].pc = "browserClose"
    /\ LET k == call[c]
       IN  \/ /\ browsers' = [browsers EXCEPT ![k.brw] = "closed"]
              /\ pages' = ClosedWith(k.brw)
              /\ browser' = 0
              /\ isConnected' = FALSE
              /\ call' = [call EXCEPT ![c] =
                     [Logged(k, "browser.close", TRUE) EXCEPT
                         !.pc = "done", !.result = Resolved(TRUE)]]
           \/ /\ \/ UNCHANGED <<browsers, pages>>
                 \/ /\ browsers' = [browsers EXCEPT ![k.brw] = "closed"]
                    /\ pages' = ClosedWith(k.brw)
              /\ call' = [call EXCEPT ![c] =
                     [Logged(k, "browser.close", FALSE) EXCEPT
                         !.pc = "done", !.raised = "browserClose",
                         !.result = Resolved(TRUE)]]
              /\ UNCHANGED <<browser, isConnected>>
    /\ UNCHANGED nCalls
    /\ McpFrame

\* the caller has its answer and is free for the next call
Return(c) ==
    /\ call[c].pc = "done"
    /\ call' = [call EXCEPT ![c] = IdleCall]
    /\ UNCHANGED <<browser, isConnected, browsers, pages, nCalls>>
    /\ McpFrame

\* initialize() called from outside (lines 19-27): nothing to do when
\* connected, else up to puppeteer.launch
Initialize(c) ==
    /\ c \in callers
    /\ call[c].pc = "idle"
    /\ LET k == [IdleCall EXCEPT !.op = "initialize"]
       IN  IF isConnected
           THEN call' = [call EXCEPT ![c] =
                    [k EXCEPT !.pc = "done", !.result = Resolved(TRUE)]]
           ELSE /\ Len(browsers) < MaxLaunches
                /\ call' = [call EXCEPT ![c] = [k EXCEPT !.pc = "initLaunch"]]
    /\ UNCHANGED <<browser, isConnected, browsers, pages, nCalls>>
    /\ McpFrame

\* puppeteer.launch of that initialize() settles (lines 27-51)
InitializeSettled(c) ==
    /\ call[c].pc = "initLaunch"
    /\ \/ /\ browsers' = Append(browsers, "open")
          /\ browser' = Len(browsers) + 1
          /\ isConnected' = TRUE
          /\ call' = [call EXCEPT ![c] =
                        [Logged(@, "launch", TRUE) EXCEPT
                            !.pc = "done", !.result = Resolved(TRUE)]]
       \/ /\ call' = [call EXCEPT ![c] =
                        [Logged(@, "launch", FALSE) EXCEPT
                            !.pc = "done", !.raised = "launch",
                            !.outcome = "failure",
                            !.result = Rejected(FALSE, "launch")]]
          /\ UNCHANGED <<browser, isConnected, browsers>>
    /\ UNCHANGED <<pages, nCalls>>
    /\ McpFrame

\* return false of isHealthy: from the guard or from the catch
Unhealthy(k) == [k EXCEPT !.pc = "done", !.result = Resolved(FALSE)]

\* isHealthy up to browser.newPage (lines 197-204)
IsHealthy(c) ==
    /\ c \in callers
    /\ call[c].pc = "idle"
    /\ nCalls < MaxCalls
    /\ nCalls' = nCalls + 1
    /\ LET k == [IdleCall EXCEPT !.op = "isHealthy", !.id = nCalls + 1]
       IN  call' = [call EXCEPT ![c] =
              IF browser = 0 \/ ~isConnected THEN Unhealthy(k)
              ELSE [k EXCEPT !.pc = "healthNewPage", !.brw = browser]]
    /\ UNCHANGED <<browser, isConnected, browsers, pages>>
    /\ McpFrame

\* browser.newPage of isHealthy settles (line 204)
HealthNewPageSettled(c) ==
    /\ call[c].pc = "healthNewPage"
    /\ LET k == call[c]
       IN  \/ /\ browsers[k.brw] = "open"
              /\ pages' = Append(pages,
                     [browser |-> k.brw, context |-> k.brw, callId |-> k.id,
                      open |-> TRUE, closeCalled |-> FALSE, closeFailed |-> FALSE,
                      callDone |-> FALSE, scrollTop |-> 0, scrollHeight |-> 0,
                      challenge |-> FALSE])
              /\ call' = [call EXCEPT ![c] =
                     [Logged(k, "newPage", TRUE) EXCEPT
                         !.page = Len(pages) + 1, !.pc = "healthGoto"]]
           \/ /\ call' = [call EXCEPT ![c] = Unhealthy(Logged(k, "newPage", FALSE))]
              /\ UNCHANGED pages
    /\ UNCHANGED <<browser, isConnected, browsers, nCalls>>
    /\ McpFrame

\* page.goto('about:blank') settles (line 205); the catch of a rejection
\* returns false (lines 208-211)
HealthGotoSettled(c) ==
    /\ call[c].pc = "healthGoto"
    /\ LET k == call[c]
       IN  \/ /\ PageAlive(k.page)
              /\ call' = [call EXCEPT ![c] =
                     [Logged(k, "goto:about:blank", TRUE) EXCEPT !.pc = "healthClose"]]
              /\ UNCHANGED pages
           \/ /\ call' = [call EXCEPT ![c] =
                     Unhealthy(Logged(k, "goto:about:blank", FALSE))]
              /\ pages' = [pages EXCEPT ![k.page].callDone = TRUE]
    /\ UNCHANGED <<browser, isConnected, browsers, nCalls>>
    /\ McpFrame

\* page.close() of isHealthy settles (lines 206-207)
HealthCloseSettled(c) ==
    /\ call[c].pc = "healthClose"
    /\ LET k == call[c]
       IN  \/ /\ pages' = [pages EXCEPT ![k.page].open = FALSE,
                                        ![k.page].closeCalled = TRUE,
                                        ![k.page].callDone = TRUE]
              /\ call' = [call EXCEPT ![c] =
                     [Logged(k, "page.close", TRUE) EXCEPT
                         !.pc = "done", !.result = Resolved(TRUE)]]
           \/ /\ \E stillOpen \in BOOLEAN :
                    pages' = [pages EXCEPT ![k.page].open = @ /\ stillOpen,
                                           ![k.page].closeCalled = TRUE,
                                           ![k.page].closeFailed = TRUE,
                                           ![k.page].callDone = TRUE]
              /\ call' = [call EXCEPT ![c] =
                     Unhealthy(Logged(k, "page.close", FALSE))]
    /\ UNCHANGED <<browser, isConnected, browsers, nCalls>>
    /\ McpFrame

\* scrapeWebsite and close called by callers that do not wait for one
\* another; scrapeWebsite is called without viewport, user agent or
\* scrolling
NextConcurrent ==
    \E c \in AllCallers :
        \/ ScrapeWebsite(c, NoOptions)
        \/ LaunchSettled(c)
        \/ InitializeReturned(c)
        \/ NewPageSettled(c)
        \/ GotoSettled(c)
        \/ TimerFired(c)
        \/ TitleSettled(c)
        \/ FallbackGotoSettled(c)
        \/ EvaluateSettled(c)
        \/ PageCloseSettled(c)
        \/ Close(c, "close")
        \/ BrowserCloseSettled(c)
        \/ Return(c)

InitConcurrentVars ==
    /\ callers = AllCallers
    /\ browser = 0
    /\ isConnected = FALSE
    /\ browsers = <<>>
    /\ pages = <<>>
    /\ nCalls = 0
    /\ call = [c \in AllCallers |-> IdleCall]

\* scrapeWebsite, isHealthy, initialize, close and cleanup called one
\* after the other; scrapeWebsite is called without viewport, user agent or
\* scrolling
NextLifecycle ==
    \E c \in AllCallers :
        \/ ScrapeWebsite(c, NoOptions)
        \/ LaunchSettled(c)
        \/ InitializeReturned(c)
        \/ NewPageSettled(c)
        \/ GotoSettled(c)
        \/ TimerFired(c)
        \/ TitleSettled(c)
        \/ FallbackGotoSettled(c)
        \/ EvaluateSettled(c)
        \/ PageCloseSettled(c)
        \/ Initialize(c)
        \/ InitializeSettled(c)
        \/ IsHealthy(c)
        \/ HealthNewPageSettled(c)
        \/ HealthGotoSettled(c)
        \/ HealthCloseSettled(c)
        \/ \E op \in {"close", "cleanup"} : Close(c, op)
        \/ BrowserCloseSettled(c)
        \/ Return(c)

InitLifecycleVars ==
    /\ callers = {1}
    /\ browser = 0
    /\ isConnected = FALSE
    /\ browsers = <<>>
    /\ pages = <<>>
    /\ nCalls = 0
    /\ call = [c \in AllCallers |-> IdleCall]

NextMcp ==
    \E c \in AllCallers :
        \/ \E o \in Options : ScrapeWebsite(c, o)
        \/ LaunchSettled(c)
        \/ InitializeReturned(c)
        \/ NewPageSettled(c)
        \/ SetViewportSettled(c)
        \/ SetUserAgentSettled(c)
        \/ GotoSettled(c)
        \/ TimerFired(c)
        \/ TitleSettled(c)
        \/ FallbackGotoSettled(c)
        \/ ScrollToSettled(c)
        \/ ScrollDelayElapsed(c)
        \/ ScrollCheckSettled(c)
        \/ EvaluateSettled(c)
        \/ PageCloseSettled(c)
        \/ \E op \in {"close", "cleanup"} : Close(c, op)
        \/ BrowserCloseSettled(c)
        \/ Return(c)

-----------------------------------------------------------------------------
(***************************************************************************)
(* InteractiveScraperService.processPromptRequest, with the                *)
(* ScraperService.scrapeAndAnalyze and extractDataBasedOnPrompt it awaits. *)
(* An error message is the sequence of the pieces it was put together      *)
(* from; the extraction itself is the extractWithAI machine above.         *)
(***************************************************************************)
\* what a failing acquisition reports as its cause
Causes == {"Network timeout", "Browser launch failed"}

\* request.outputFormat ('csv' | 'json' | undefined) and whether
\* request.outputPath starts with '/'
Requests == [outputFormat : {"csv", "json", "undefined"}, absolutePath : BOOLEAN]
NoRequest == [outputFormat |-> "undefined", absolutePath |-> FALSE]

\* the page snapshots an acquisition delivers to the request
SnapshotTitles == {<<>>, <<"J", "m", "b">>}
SnapshotContents == {<<>>, <<"m">>, <<"m", "b">>, <<"J", "m", "b">>,
                     <<"b", "m", "b">>}

\* data: []
NoData == [kind |-> "array", records |-> <<>>]
\* data: scrapedData, the ScrapingResult of scrapeAndAnalyze
ScrapedData == [kind |-> "scrapingResult", records |-> <<>>]

NoOutcome == [state |-> "pending", success |-> FALSE, data |-> NoData,
              outputFile |-> "undefined", error |-> <<>>, items |-> 0]

\* the result of lines 62-68; items is the count the message reports
Failure == [state |-> "resolved", success |-> FALSE, data |-> NoData,
            outputFile |-> "undefined",
            error |-> <<"Scraping failed - no data extracted">>, items |-> 0]

\* the result of lines 97-102
Success(file, n) == [state |-> "resolved", success |-> TRUE, data |-> ScrapedData,
                     outputFile |-> file, error |-> <<>>, items |-> n]

\* a processPromptRequest whose catch passes the error on
Caught_Rethrow(error) == [state |-> "rejected", success |-> FALSE, data |-> NoData,
                          outputFile |-> "undefined", error |-> error, items |-> 0]

\* the catch of processPromptRequest (lines 103-113): the error is logged
\* and the fixed failure result returned
Caught(error) == [state |-> "resolved", success |-> FALSE, data |-> NoData,
                  outputFile |-> "undefined",
                  error |-> <<"Scraping failed - no data extracted">>, items |-> 0]

\* the catch of scrapeAndAnalyze (lines 81-84)
scrapeAndAnalyzeThrows(message) == <<"Scraping failed: ">> \o message

NotAcquired == [state |-> "none", message |-> <<>>]

RequestIdle ==
    /\ request = NoRequest
    /\ rpc = "idle"
    /\ isOllamaAvailable = FALSE
    /\ acquisition = NotAcquired
    /\ rlog = <<>>
    /\ csvCalls = <<>>
    /\ rresult = NoOutcome

InitRequestVars ==
    /\ request \in Requests
    /\ rpc = "start"
    /\ isOllamaAvailable = FALSE
    /\ acquisition = NotAcquired
    /\ rlog = <<>>
    /\ csvCalls = <<>>
    /\ rresult = NoOutcome

\* processPromptRequest ends with the result r
Settle(r) ==
    /\ rresult' = r
    /\ rpc' = "done"

\* the outcomes of an awaited ollamaService.isAvailable()
ProbeOutcomes == {"true", "false", "throws"}

\* processPromptRequest up to its first await: parsePrompt (line 30), then
\* scrapeAndAnalyze up to ollamaService.isAvailable() (lines 22-31)
ProcessPromptRequest ==
    /\ rpc = "start"
    /\ \/ /\ rlog' = <<"parsePrompt">>
          /\ Settle(Caught(<<"parsePrompt">>))
       \/ /\ rlog' = <<"parsePrompt", "isAvailable">>
          /\ rpc' = "probe1"
          /\ UNCHANGED rresult
    /\ UNCHANGED <<request, isOllamaAvailable, acquisition, csvCalls, parseVars, ioVars,
                   extractVars, mcpVars>>

\* the probe of scrapeAndAnalyze settles (lines 31-47): a rejection leaves
\* through both catches, anything else leads to mcpClient.scrapeWebsite
Probe1Settled ==
    /\ rpc = "probe1"
    /\ \E r \in ProbeOutcomes :
          IF r = "throws"
          THEN /\ rlog' = Append(rlog, "isAvailable:throws")
               /\ Settle(Caught(scrapeAndAnalyzeThrows(<<"probe">>)))
               /\ UNCHANGED isOllamaAvailable
          ELSE /\ isOllamaAvailable' = (r = "true")
               /\ rlog' = rlog \o <<"isAvailable:" \o r, "scrapeWebsite">>
               /\ rpc' = "acquire"
               /\ UNCHANGED rresult
    /\ UNCHANGED <<request, acquisition, csvCalls, parseVars, ioVars, extractVars, mcpVars>>

\* scrapeAndAnalyze goes on although mcpClient.scrapeWebsite rejected
AcquireRejected_Continue(message) ==
    /\ acquisition' = [state |-> "rejected", message |-> message]
    /\ rlog' = rlog \o <<"parseContent", "isAvailable">>
    /\ rpc' = "probe2"
    /\ UNCHANGED <<isOllamaAvailable, rresult, title, content>>

\* mcpClient.scrapeWebsite rejects: the catch of scrapeAndAnalyze wraps the
\* message (lines 81-84), the catch of processPromptRequest ends the request
AcquireRejected(message) ==
    /\ acquisition' = [state |-> "rejected", message |-> message]
    /\ Settle(Caught(scrapeAndAnalyzeThrows(message)))
    /\ UNCHANGED <<isOllamaAvailable, rlog, title, content>>

\* mcpClient.scrapeWebsite resolves with a snapshot (lines 47-63):
\* parseContent, then the analysis if the probe said so, else on to
\* extractDataBasedOnPrompt and its own probe (lines 116-124)
AcquireResolved(t, cnt) ==
    /\ acquisition' = [state |-> "resolved", message |-> <<>>]
    /\ \/ /\ rlog' = Append(rlog, "parseContent")
          /\ Settle(Caught(scrapeAndAnalyzeThrows(<<"parseContent">>)))
          /\ UNCHANGED <<title, content>>
       \/ /\ title' = t
          /\ content' = cnt
          /\ UNCHANGED rresult
          /\ IF isOllamaAvailable
             THEN /\ rlog' = rlog \o <<"parseContent", "analyzeScrapedContent">>
                  /\ rpc' = "analysis"
             ELSE /\ rlog' = rlog \o <<"parseContent", "isAvailable">>
                  /\ rpc' = "probe2"
    /\ UNCHANGED isOllamaAvailable

\* the message of a rejected scrapeWebsite: the cause, wrapped by the catch
\* of scrapeWebsite or as it was raised
AcquisitionMessages ==
    {<<m>> : m \in Causes} \cup {<<"Puppeteer scraping failed: ", m>> : m \in Causes}

AcquireSettled ==
    /\ rpc = "acquire"
    /\ \/ \E message \in AcquisitionMessages : AcquireRejected(message)
       \/ \E t \in SnapshotTitles, cnt \in SnapshotContents : AcquireResolved(t, cnt)
    /\ UNCHANGED <<request, csvCalls, parseVars, ioVars, mcpVars, nodeEnvTest, xpc,
                   chunkIdx, aggregated, seen, aiCalls, sent, xresult>>

\* performAIAnalysis is over (lines 60-80, 150-210): its own catch keeps
\* every failure of the model inside
AnalysisSettled ==
    /\ rpc = "analysis"
    /\ rlog' = Append(rlog, "isAvailable")
    /\ rpc' = "probe2"
    /\ UNCHANGED <<request, isOllamaAvailable, acquisition, csvCalls, rresult,
                   parseVars, ioVars, extractVars, mcpVars>>

\* extractDataBasedOnPrompt without the test of its probe
Probe2Settled_NoGuard ==
    /\ rpc = "probe2"
    /\ \E r \in ProbeOutcomes :
          /\ rlog' = rlog \o <<"isAvailable:" \o r, "extractWithAI">>
          /\ rpc' = "extract"
          /\ xpc' = "start"
          /\ UNCHANGED rresult
    /\ UNCHANGED <<request, isOllamaAvailable, acquisition, csvCalls, parseVars, ioVars,
                   mcpVars, nodeEnvTest, title, content, chunkIdx, aggregated,
                   seen, aiCalls, sent, xresult>>

\* the probe of extractDataBasedOnPrompt settles (lines 122-135): a
\* rejection counts as false; unavailable outside tests throws, otherwise
\* extractWithAI is entered
Probe2Settled ==
    /\ rpc = "probe2"
    /\ \E r \in ProbeOutcomes :
          IF r # "true" /\ ~nodeEnvTest
          THEN /\ rlog' = Append(rlog, "isAvailable:" \o r)
               /\ Settle(Caught(<<"AI service unavailable">>))
               /\ UNCHANGED xpc
          ELSE /\ rlog' = rlog \o <<"isAvailable:" \o r, "extractWithAI">>
               /\ rpc' = "extract"
               /\ xpc' = "start"
               /\ UNCHANGED rresult
    /\ UNCHANGED <<request, isOllamaAvailable, acquisition, csvCalls, parseVars, ioVars,
                   mcpVars, nodeEnvTest, title, content, chunkIdx, aggregated,
                   seen, aiCalls, sent, xresult>>

\* extractWithAI has settled: lines 54-113
ExtractSettled ==
    /\ rpc = "extract"
    /\ xpc = "done"
    /\ LET structuredData == xresult.records
       IN  IF xresult.kind = "thrown"
           THEN /\ Settle(Caught(<<xresult.error>>))
                /\ UNCHANGED <<rlog, csvCalls>>
           ELSE IF Len(structuredData) = 0
           THEN /\ Settle(Failure)
                /\ UNCHANGED <<rlog, csvCalls>>
           ELSE IF request.outputFormat \in {"csv", "undefined"}
           THEN IF nodeEnvTest /\ request.absolutePath
                THEN /\ Settle(Caught(<<"Invalid output path">>))
                     /\ UNCHANGED <<rlog, csvCalls>>
                ELSE /\ rlog' = Append(rlog, "exportToCsv")
                     /\ csvCalls' = Append(csvCalls, structuredData)
                     /\ \/ Settle(Success("file", Len(structuredData)))
                        \/ Settle(Caught(<<"CSV export failed: ", "write">>))
           ELSE /\ Settle(Success("undefined", Len(structuredData)))
                /\ UNCHANGED <<rlog, csvCalls>>
    /\ UNCHANGED <<request, isOllamaAvailable, acquisition, parseVars, ioVars,
                   extractVars, mcpVars>>

NextRequest ==
    \/ ProcessPromptRequest
    \/ Probe1Settled
    \/ AcquireSettled
    \/ AnalysisSettled
    \/ Probe2Settled
    \/ ExtractStart
    \/ ChunkResolved
    \/ ChunkRejected
    \/ ExtractSettled

-----------------------------------------------------------------------------
(***************************************************************************)
(* CsvExportService.exportToCsv and generateCsvContent.  A CSV text is the *)
(* sequence of its rows, a row the sequence of its fields.                 *)
(***************************************************************************)
MaxRecords == 2

\* the members a record handed to the exporter can have: key and value
CsvPairs == {"n=A", "p=1", "p=2", "d=x,y"}
CsvKey == ("n=A" :> "n") @@ ("p=1" :> "p") @@ ("p=2" :> "p") @@ ("d=x,y" :> "d")
CsvValue == ("n=A" :> "A") @@ ("p=1" :> "1") @@ ("p=2" :> "2") @@ ("d=x,y" :> "x,y")

\* the items of data: objects, and a string and null for what is no object
CsvItems == {ObjV(<<"n=A", "p=1">>), ObjV(<<"p=2", "d=x,y">>), ObjV(<<>>),
             StrV("s"), NullV}

RECURSIVE ListsUpTo(_, _)
ListsUpTo(S, n) ==
    IF n = 0 THEN {<<>>}
    ELSE LET shorter == ListsUpTo(S, n - 1)
         IN  shorter \cup {Append(l, x) : l \in shorter, x \in S}

\* typeof item === 'object' && item !== null (no array is among the items)
IsObject(item) == item.kind = "obj"

\* allKeys after the forEach of lines 52-57: the keys in first-seen order
RECURSIVE AddKeys(_, _)
AddKeys(keys, ps) ==
    IF ps = <<>> THEN keys
    ELSE AddKeys(IF \E i \in 1..Len(keys) : keys[i] = CsvKey[Head(ps)] THEN keys
                 ELSE Append(keys, CsvKey[Head(ps)]),
                 Tail(ps))

RECURSIVE Headers(_, _)
Headers(keys, items) ==
    IF items = <<>> THEN keys
    ELSE Headers(IF IsObject(Head(items)) THEN AddKeys(keys, Head(items).pairs)
                 ELSE keys,
                 Tail(items))

\* escapeCsvValue of a string (lines 62-79): quoted when it holds a comma
escapeCsvValue(value) == IF value = "x,y" THEN "\"x,y\"" ELSE value

\* escapeCsvValue(item[header]): undefined gives ''
Field(item, header) ==
    LET at == {i \in 1..Len(item.pairs) : CsvKey[item.pairs[i]] = header}
    IN  IF at = {} THEN "" ELSE escapeCsvValue(CsvValue[item.pairs[Max(at)]])

\* String(item) of an item that is no object; null gives ''
Scalar(item) == IF item.kind = "str" THEN escapeCsvValue(item.pairs[1]) ELSE ""

\* the row of one item (lines 84-95); ','.repeat(headers.length - 1) is a
\* RangeError when there is no header
Row(item, headers) ==
    IF IsObject(item)
    THEN [ok |-> TRUE, fields |-> [h \in 1..Len(headers) |-> Field(item, headers[h])]]
    ELSE IF Len(headers) = 0 THEN [ok |-> FALSE, fields |-> <<>>]
    ELSE [ok |-> TRUE,
          fields |-> <<Scalar(item)>> \o [h \in 1..(Len(headers) - 1) |-> ""]]

\* generateCsvContent (lines 46-99): the header row, then a row per item
generateCsvContent(items) ==
    IF Len(items) = 0 THEN [ok |-> TRUE, rows |-> <<>>]
    ELSE LET headers == Headers(<<>>, items)
             rows == [i \in 1..Len(items) |-> Row(items[i], headers)]
         IN  IF \E i \in 1..Len(items) : ~rows[i].ok
             THEN [ok |-> FALSE, rows |-> <<>>]
             ELSE [ok |-> TRUE,
                   rows |-> <<headers>> \o [i \in 1..Len(items) |-> rows[i].fields]]

NotExported == [state |-> "pending", path |-> "", error |-> <<>>]
\* return filePath
Exported(path) == [state |-> "returned", path |-> path, error |-> <<>>]
\* the catch of lines 40-43
ExportFailed(message) ==
    [state |-> "thrown", path |-> "", error |-> <<"CSV export failed: ", message>>]

\* filename.endsWith('.csv') ? filename : `${filename}_${timestamp}.csv`
finalFilename(name) == IF name = "out.csv" THEN name ELSE "out_timestamp.csv"

CsvIdle ==
    /\ data = <<>>
    /\ filename = ""
    /\ dirExists = FALSE
    /\ files = <<>>
    /\ cpc = "idle"
    /\ cresult = NotExported

InitCsvVars ==
    /\ data \in ListsUpTo(CsvItems, MaxRecords)
    /\ filename \in {"out", "out.csv"}
    /\ dirExists \in BOOLEAN
    /\ files = <<>>
    /\ cpc = "start"
    /\ cresult = NotExported

CsvFrame == UNCHANGED <<data, filename, parseVars, extractVars, mcpVars, reqVars,
                        segVars, basicVars, multiVars>>

\* what follows the directory step, without the test of data.length
AfterDirectory_NoEmptyCheck ==
    LET csvContent == generateCsvContent(data)
    IN  IF ~csvContent.ok
        THEN /\ cresult' = ExportFailed("Invalid count value: -1")
             /\ UNCHANGED files
        ELSE \/ /\ files' = Append(files, [path |-> finalFilename(filename),
                                           content |-> csvContent.rows])
                /\ cresult' = Exported(finalFilename(filename))
             \/ /\ cresult' = ExportFailed("write")
                /\ UNCHANGED files

\* lines 20-39: the empty list, the content, the file
AfterDirectory ==
    LET csvContent == generateCsvContent(data)
    IN  IF Len(data) = 0
        THEN /\ cresult' = ExportFailed("No data to export")
             /\ UNCHANGED files
        ELSE IF ~csvContent.ok
        THEN /\ cresult' = ExportFailed("Invalid count value: -1")
             /\ UNCHANGED files
        ELSE \/ /\ files' = Append(files, [path |-> finalFilename(filename),
                                           content |-> csvContent.rows])
                /\ cresult' = Exported(finalFilename(filename))
             \/ /\ cresult' = ExportFailed("write")
                /\ UNCHANGED files

\* exportToCsv (lines 9-44): a missing output directory is created first,
\* and mkdirSync, like writeFileSync, can throw
ExportToCsv ==
    /\ cpc = "start"
    /\ cpc' = "done"
    /\ \/ /\ ~dirExists
          /\ cresult' = ExportFailed("mkdir")
          /\ UNCHANGED <<dirExists, files>>
       \/ /\ dirExists' = TRUE
          /\ AfterDirectory
    /\ CsvFrame

-----------------------------------------------------------------------------
(***************************************************************************)
(* HtmlParserService.extractSections.  The text of an element is known by  *)
(* its lengths: pad characters of surrounding whitespace and len           *)
(* characters from the first to the last non-blank one.                    *)
(***************************************************************************)
MaxElements == 2
MaxItems == 2

\* text.length > 20 of the paragraph pass, text.length > 50 of the table pass
ParagraphMin == 20
TableMin == 50

Text(pad, len) == [pad |-> pad, len |-> len]
\* String.prototype.trim
Trim(t) == [pad |-> 0, len |-> t.len]
\* text.length
Length(t) == t.pad + t.len

NoText == Text(0, 0)
Blank == Text(1, 0)
ItemLists == ListsUpTo({Blank, Text(0, 3)}, MaxItems)

Element(tag, t, lis) == [tag |-> tag, text |-> t, items |-> lis]
HeadingElements == {Element(tag, t, <<>>) : tag \in {"H1", "H3"}, t \in {Blank, Text(1, 5)}}
ParagraphElements ==
    {Element("P", t, <<>>) : t \in {Blank, Text(0, 15), Text(0, ParagraphMin),
                                    Text(1, ParagraphMin), Text(0, ParagraphMin + 1),
                                    Text(0, 25)}}
ListElements == {Element(tag, NoText, lis) : tag \in {"UL", "OL"}, lis \in ItemLists}
TableElements ==
    {Element("TABLE", t, <<>>) : t \in {Blank, Text(0, TableMin), Text(1, TableMin),
                                        Text(0, TableMin + 1)}}
Elements == HeadingElements \cup ParagraphElements \cup ListElements
                \cup TableElements
Documents == ListsUpTo(Elements, MaxElements)

HeadingTags == {"H1", "H2", "H3", "H4", "H5", "H6"}
\* parseInt(heading.prop('tagName')?.substring(1) ?? '1')
Level(tag) == CASE tag = "H1" -> 1 [] tag = "H2" -> 2 [] tag = "H3" -> 3
                [] tag = "H4" -> 4 [] tag = "H5" -> 5 [] OTHER -> 6

Section(type, t, label, level, lis) ==
    [type |-> type, content |-> t, label |-> label, level |-> level, items |-> lis]

\* the texts of the li elements that are non-empty once trimmed (lines 203-208)
RECURSIVE ListItems(_)
ListItems(lis) ==
    IF lis = <<>> THEN <<>>
    ELSE (IF Length(Trim(Head(lis))) > 0 THEN <<Trim(Head(lis))>> ELSE <<>>)
         \o ListItems(Tail(lis))

\* the paragraph pass gating on the text before it is trimmed
ParagraphSections_Untrimmed(el) ==
    IF el.tag = "P" /\ Length(el.text) > 0 /\ Length(el.text) > ParagraphMin
    THEN <<Section("paragraph", Trim(el.text), "", 0, <<>>)>> ELSE <<>>

\* what each of the four passes pushes for one element (lines 172-232)
HeadingSections(el) ==
    IF el.tag \in HeadingTags /\ Length(Trim(el.text)) > 0
    THEN <<Section("heading", Trim(el.text), "", Level(el.tag), <<>>)>> ELSE <<>>

ParagraphSections(el) ==
    LET text == Trim(el.text)
    IN  IF el.tag = "P" /\ Length(text) > 0 /\ Length(text) > ParagraphMin
        THEN <<Section("paragraph", text, "", 0, <<>>)>> ELSE <<>>

ListSections(el) ==
    IF el.tag \in {"UL", "OL"} /\ Len(ListItems(el.items)) > 0
    THEN <<Section("list", NoText,
                   IF el.tag = "UL" THEN "Unordered List" ELSE "Ordered List",
                   0, ListItems(el.items))>>
    ELSE <<>>

TableSections(el) ==
    LET text == Trim(el.text)
    IN  IF el.tag = "TABLE" /\ Length(text) > 0 /\ Length(text) > TableMin
        THEN <<Section("table", text, "", 0, <<>>)>> ELSE <<>>

\* $(selector).each(...) over the document with one pass
RECURSIVE Concat(_)
Concat(parts) == IF parts = <<>> THEN <<>> ELSE Head(parts) \o Concat(Tail(parts))
Each(doc, Pass(_)) == Concat([i \in 1..Len(doc) |-> Pass(doc[i])])

\* extractSections (lines 168-235): headings, paragraphs, lists, tables
extractSections(doc) ==
    Each(doc, HeadingSections) \o Each(doc, ParagraphSections)
        \o Each(doc, ListSections) \o Each(doc, TableSections)

SegIdle ==
    /\ html = <<>>
    /\ spc = "idle"
    /\ sections = <<>>

InitSegVars ==
    /\ html \in Documents
    /\ spc = "start"
    /\ sections = <<>>

ExtractSections ==
    /\ spc = "start"
    /\ sections' = extractSections(html)
    /\ spc' = "done"
    /\ UNCHANGED <<html, parseVars, extractVars, mcpVars, reqVars, csvVars,
                   basicVars, multiVars>>

-----------------------------------------------------------------------------
(***************************************************************************)
(* InteractiveScraperService.extractBasicData (scraper.tool.ts 1174-1315). *)
(* Section text is a sequence of characters; a currency code (USD, EUR,    *)
(* GBP, JPY in either case) is one character of the model's alphabet.      *)
(***************************************************************************)
MaxPriceLen == 4
MaxSections == 2

Digits == {"1"}
Codes == {"USD"}
PriceChars == {"$", "€", "1", ",", ".", " ", "USD"}

RECURSIVE PriceTextsUpTo(_)
PriceTextsUpTo(n) ==
    IF n = 0 THEN {<<>>}
    ELSE LET shorter == PriceTextsUpTo(n - 1)
         IN  shorter \cup {Append(t, c) : t \in shorter, c \in PriceChars}

PriceTexts == PriceTextsUpTo(MaxPriceLen)

\* values of a record's members: text, number or null
BText(t) == [kind |-> "text", text |-> t, num |-> 0]
BNum(n) == [kind |-> "num", text |-> <<>>, num |-> n]
BNull == [kind |-> "null", text |-> <<>>, num |-> 0]

\* item[key] = value: in place when the key exists, else as the last member
Put(item, key, value) ==
    IF \E i \in 1..Len(item) : item[i][1] = key
    THEN [i \in 1..Len(item) |-> IF item[i][1] = key THEN <<key, value>> ELSE item[i]]
    ELSE Append(item, <<key, value>>)

\* item[key], NotSet for a key the item does not have
NotSet == [kind |-> "undefined", text |-> <<>>, num |-> 0]
Get(item, key) ==
    IF \E i \in 1..Len(item) : item[i][1] = key
    THEN item[CHOOSE i \in 1..Len(item) : item[i][1] = key][2]
    ELSE NotSet

\* new Date().toISOString()
Now == <<"now">>

\* the array with the euro pattern ahead of the dollar pattern
pricePatterns_EuroFirst == <<"€", "$", "£", "¥", "code">>

\* the five pricePatterns in the order of the array (lines 1209-1215)
pricePatterns == <<"$", "€", "£", "¥", "code">>

\* the length of the longest run of characters of S that starts at t[i]
RECURSIVE Run(_, _, _)
Run(t, i, S) ==
    IF i <= Len(t) /\ t[i] \in S THEN 1 + Run(t, i + 1, S) ELSE 0

\* [\d,]+\.?\d* tried at t[i]: the position of its last character, 0 when
\* it does not match there
AmountEnd(t, i) ==
    LET a == Run(t, i, Digits \cup {","})
        j == i + a
        dot == IF j <= Len(t) /\ t[j] = "." THEN 1 ELSE 0
    IN  IF a = 0 THEN 0 ELSE j + dot + Run(t, j + dot, Digits) - 1

\* one pattern tried at t[i]: the position of the match's last character,
\* 0 when the pattern does not match there
MatchEnd(t, i, pattern) ==
    IF pattern = "code"
    THEN LET e == AmountEnd(t, i)
             k == e + 1 + Run(t, e + 1, {" "})
         IN  IF e > 0 /\ k <= Len(t) /\ t[k] \in Codes THEN k ELSE 0
    ELSE IF t[i] = pattern THEN AmountEnd(t, i + 1) ELSE 0

\* content.match(pattern)[0]: the leftmost match, the empty text for null
Match(t, pattern) ==
    LET starts == {i \in 1..Len(t) : MatchEnd(t, i, pattern) > 0}
    IN  IF starts = {} THEN <<>>
        ELSE LET i == CHOOSE i \in starts : \A j \in starts : i <= j
             IN  SubSeq(t, i, MatchEnd(t, i, pattern))

\* for (const pattern of pricePatterns) ... break (lines 1217-1225)
RECURSIVE extractedPrice(_, _)
extractedPrice(t, p) ==
    IF p > Len(pricePatterns) THEN <<>>
    ELSE IF Match(t, pricePatterns[p]) # <<>> THEN Match(t, pricePatterns[p])
    ELSE extractedPrice(t, p + 1)

\* a || b on texts: the empty text is falsy
Or(a, b) == IF a # <<>> THEN a ELSE b

\* extractedPrice || 'Price not found'
PriceOf(t) == Or(extractedPrice(t, 1), <<"Price not found">>)

\* scrapedData: url and title are texts (empty when absent); content is
\* absent or holds sections (their content texts; none when the member is
\* absent or empty), text, links, headings and images
NoContent == [present |-> FALSE, sections |-> <<>>, text |-> <<>>,
              links |-> <<>>, headings |-> <<>>, images |-> <<>>]
Content(ss, tx, ls, hs, is) ==
    [present |-> TRUE, sections |-> ss, text |-> tx, links |-> ls,
     headings |-> hs, images |-> is]
Scraped(u, ttl, c) == [url |-> u, title |-> ttl, content |-> c]

\* the switch over one field for a section (lines 1192-1232)
SectionField(item, field, sd, section) ==
    IF field = "title"
    THEN Put(item, "title", BText(Or(section, Or(sd.title, <<"No title">>))))
    ELSE IF field \in {"content", "description"}
    THEN Put(item, "description", BText(Or(section, <<"No description">>)))
    ELSE IF field = "link"
    THEN Put(item, "link", BText(sd.url))
    ELSE IF field = "price"
    THEN Put(item, field, BText(PriceOf(section)))
    ELSE Put(item, field, IF section # <<>> THEN BText(section) ELSE BNull)

\* parsedPrompt.fields.forEach over a section's item
RECURSIVE SectionFields(_, _, _, _)
SectionFields(item, fields, sd, section) ==
    IF fields = <<>> THEN item
    ELSE SectionFields(SectionField(item, Head(fields), sd, section),
                       Tail(fields), sd, section)

\* the item built for sections[index] (lines 1184-1235); index counts from 0
SectionItem(sd, fields, section, index) ==
    SectionFields(<< <<"index", BNum(index)>>, <<"url", BText(sd.url)>>,
                     <<"scraped_at", BText(Now)>> >>,
                  fields, sd, section)

\* the switch over one field for the whole document (lines 1248-1288)
BasicField(item, field, sd) ==
    IF field = "title"
    THEN Put(item, "title", BText(Or(sd.title, <<"No title">>)))
    ELSE IF field \in {"content", "description"}
    THEN Put(item, "description", BText(Or(sd.content.text, <<"No content">>)))
    ELSE IF field = "link"
    THEN Put(item, "link", BText(Or(sd.url, <<"Unknown URL">>)))
    ELSE IF field = "price"
    THEN Put(item, "price", BText(PriceOf(sd.content.text)))
    ELSE IF field = "image"
    THEN Put(item, "image", IF sd.content.images # <<>>
                            THEN BText(<<sd.content.images[1]>>) ELSE BNull)
    ELSE Put(item, field, BNull)

RECURSIVE BasicFields(_, _, _)
BasicFields(item, fields, sd) ==
    IF fields = <<>> THEN item
    ELSE BasicFields(BasicField(item, Head(fields), sd), Tail(fields), sd)

\* list.slice(0, 3).join('; ')
FirstThree(list) ==
    Join([i \in 1..(IF Len(list) < 3 THEN Len(list) ELSE 3) |-> <<list[i]>>],
         <<"; ">>)

\* the links and headings members added to the whole-document item
Additional(item, c) ==
    LET withLinks == IF c.present /\ c.links # <<>>
                     THEN Put(item, "links", BText(FirstThree(c.links)))
                     ELSE item
    IN  IF c.present /\ c.headings # <<>>
        THEN Put(withLinks, "headings", BText(FirstThree(c.headings)))
        ELSE withLinks

\* the whole-document item (lines 1242-1311)
BasicItem(sd, fields) ==
    Additional(BasicFields(<< <<"url", BText(Or(sd.url, <<"Unknown URL">>))>>,
                              <<"scraped_at", BText(Now)>> >>,
                           fields, sd),
               sd.content)

\* the section pass that keeps only the sections a price was found in
SectionPass_PricedOnly(sd, fields) ==
    IF sd.content.present
    THEN SelectSeq([i \in 1..Len(sd.content.sections) |->
                       SectionItem(sd, fields, sd.content.sections[i], i - 1)],
                   LAMBDA item : Get(item, "price") # BText(<<"Price not found">>))
    ELSE <<>>

\* the section pass (lines 1181-1238): one item per section
SectionPass(sd, fields) ==
    IF sd.content.present
    THEN [i \in 1..Len(sd.content.sections) |->
              SectionItem(sd, fields, sd.content.sections[i], i - 1)]
    ELSE <<>>

\* extractBasicData (lines 1174-1315)
extractBasicData(sd, fields) ==
    LET items == SectionPass(sd, fields)
    IN  IF Len(items) = 0 THEN <<BasicItem(sd, fields)>> ELSE items

\* the inputs: short lists of chosen section texts with every kind of
\* document around them, and every single section text up to MaxPriceLen
SectionTexts == {<<>>, <<"$", "1">>, <<"€", "1", " ", "$", "1", ",">>,
                 <<"1", " ", "USD">>, <<".">>}
SectionLists == ListsUpTo(SectionTexts, MaxSections)
DocTexts == {<<>>, <<"€", "1", ".", "1">>, <<"w">>}
Extras == {[links |-> <<>>, headings |-> <<>>, images |-> <<>>],
           [links |-> <<"a", "b", "c", "d">>, headings |-> <<"h">>,
            images |-> <<"i", "j">>]}
Urls == {<<>>, <<"u">>}
DocTitles == {<<>>, <<"T">>}
FieldLists == {<<"title", "content", "link">>, <<"price">>,
               <<"price", "title", "description">>, <<"image", "rating">>}

ScrapedDatas ==
    {Scraped(u, ttl, Content(ss, tx, ex.links, ex.headings, ex.images)) :
        u \in Urls, ttl \in DocTitles, ss \in SectionLists, tx \in DocTexts,
        ex \in Extras}
    \cup {Scraped(u, ttl, NoContent) : u \in Urls, ttl \in DocTitles}
    \cup {Scraped(<<"u">>, <<"T">>, Content(<<t>>, <<>>, <<>>, <<>>, <<>>)) :
            t \in PriceTexts}

BasicIdle ==
    /\ scrapedData = Scraped(<<>>, <<>>, NoContent)
    /\ parsedPrompt = <<>>
    /\ bpc = "idle"
    /\ bdata = <<>>

InitBasicVars ==
    /\ scrapedData \in ScrapedDatas
    /\ parsedPrompt \in FieldLists
    /\ bpc = "start"
    /\ bdata = <<>>

ExtractBasicData ==
    /\ bpc = "start"
    /\ bdata' = extractBasicData(scrapedData, parsedPrompt)
    /\ bpc' = "done"
    /\ UNCHANGED <<scrapedData, parsedPrompt, parseVars, extractVars, mcpVars,
                   reqVars, csvVars, segVars, multiVars>>

-----------------------------------------------------------------------------
(***************************************************************************)
(* ScraperService.scrapeMultipleUrls (scraper.service.ts 87-102): one      *)
(* scrapeAndAnalyze per url, all started before the first await, awaited   *)
(* together by Promise.all.                                                *)
(***************************************************************************)
MaxUrls == 3

UrlLists == {[i \in 1..n |-> i] : n \in 1..MaxUrls}

\* a scrapeAndAnalyze in progress: the await it stands at
Task(pc, available) == [pc |-> pc, available |-> available]
Running(t) == t.pc \in {"isAvailable", "scrapeWebsite", "performAIAnalysis"}

\* the ScrapingResult of a url; the error scrapeAndAnalyze throws for it
ResultOf(url) == [url |-> url]
ErrorOf(url) == <<"Scraping failed: ", url>>

Awaiting == [state |-> "pending", results |-> <<>>, error |-> <<>>]
Fulfilled(rs) == [state |-> "returned", results |-> rs, error |-> <<>>]
RejectedWith(e) == [state |-> "thrown", results |-> <<>>, error |-> e]

MultiIdle ==
    /\ urls = <<>>
    /\ tasks = <<>>
    /\ rejections = <<>>
    /\ mpc = "idle"
    /\ mresult = Awaiting

InitMultiVars ==
    /\ urls \in UrlLists
    /\ tasks = <<>>
    /\ rejections = <<>>
    /\ mpc = "start"
    /\ mresult = Awaiting

MultiFrame == UNCHANGED <<urls, parseVars, extractVars, mcpVars, reqVars, csvVars,
                          segVars, basicVars>>

\* lines 91-97: urls.map starts every scrapeAndAnalyze up to its first await
ScrapeMultipleUrls ==
    /\ mpc = "start"
    /\ tasks' = [i \in 1..Len(urls) |-> Task("isAvailable", FALSE)]
    /\ mpc' = "awaiting"
    /\ UNCHANGED <<rejections, mresult>>
    /\ MultiFrame

\* scrapeAndAnalyze of urls[i]: isAvailable settles (it never rejects)
TaskProbed(i) ==
    /\ tasks[i].pc = "isAvailable"
    /\ \E a \in BOOLEAN : tasks' = [tasks EXCEPT ![i] = Task("scrapeWebsite", a)]
    /\ UNCHANGED <<rejections, mpc, mresult>>
    /\ MultiFrame

\* scrapeAndAnalyze of urls[i]: mcpClient.scrapeWebsite resolves; without
\* the model it returns at once
TaskScraped(i) ==
    /\ tasks[i].pc = "scrapeWebsite"
    /\ tasks' = [tasks EXCEPT ![i] =
                    IF tasks[i].available
                    THEN Task("performAIAnalysis", TRUE)
                    ELSE Task("fulfilled", FALSE)]
    /\ UNCHANGED <<rejections, mpc, mresult>>
    /\ MultiFrame

\* scrapeAndAnalyze of urls[i]: mcpClient.scrapeWebsite rejects and the catch
\* throws 'Scraping failed: ...'
TaskFailed(i) ==
    /\ tasks[i].pc = "scrapeWebsite"
    /\ tasks' = [tasks EXCEPT ![i] = Task("rejected", tasks[i].available)]
    /\ rejections' = Append(rejections, i)
    /\ UNCHANGED <<mpc, mresult>>
    /\ MultiFrame

\* scrapeAndAnalyze of urls[i]: performAIAnalysis settles (it never rejects)
TaskAnalysed(i) ==
    /\ tasks[i].pc = "performAIAnalysis"
    /\ tasks' = [tasks EXCEPT ![i] = Task("fulfilled", TRUE)]
    /\ UNCHANGED <<rejections, mpc, mresult>>
    /\ MultiFrame

\* await Promise.all(scrapeTaskList) (line 97): it fulfils when every task
\* has, and rejects with the first rejection as soon as one task rejects
PromiseAllSettled ==
    /\ mpc = "awaiting"
    /\ \/ /\ \A i \in 1..Len(urls) : tasks[i].pc = "fulfilled"
          /\ mresult' = Fulfilled([i \in 1..Len(urls) |-> ResultOf(urls[i])])
       \/ /\ rejections # <<>>
          /\ mresult' = RejectedWith(ErrorOf(urls[rejections[1]]))
    /\ mpc' = "done"
    /\ UNCHANGED <<tasks, rejections>>
    /\ MultiFrame

NextMulti ==
    \/ ScrapeMultipleUrls
    \/ PromiseAllSettled
    \/ \E i \in 1..Len(tasks) :
          TaskProbed(i) \/ TaskScraped(i) \/ TaskFailed(i) \/ TaskAnalysed(i)

-----------------------------------------------------------------------------
InitParse == InitParseVars /\ ExtractIdle /\ McpIdle /\ RequestIdle
                /\ CsvIdle /\ SegIdle /\ BasicIdle /\ MultiIdle
NextParse == ParseResponse
SpecParse == InitParse /\ [][NextParse]_vars

InitExtract == InitExtractVars /\ ParseIdle /\ McpIdle /\ RequestIdle
                /\ CsvIdle /\ SegIdle /\ BasicIdle /\ MultiIdle
NextExtract == ExtractStart \/ ChunkResolved \/ ChunkRejected
SpecExtract == InitExtract /\ [][NextExtract]_vars

InitMcp == InitMcpVars /\ ParseIdle /\ ExtractIdle /\ RequestIdle
                /\ CsvIdle /\ SegIdle /\ BasicIdle /\ MultiIdle
SpecMcp == InitMcp /\ [][NextMcp]_vars

\* the extractWithAI machine before processPromptRequest has called it
ExtractNotCalled ==
    /\ nodeEnvTest \in BOOLEAN
    /\ title = <<>>
    /\ content = <<>>
    /\ xpc = "idle"
    /\ chunkIdx = 0
    /\ aggregated = <<>>
    /\ seen = {}
    /\ aiCalls = 0
    /\ sent = <<>>
    /\ xresult = Pending

InitRequest == InitRequestVars /\ ExtractNotCalled /\ ParseIdle /\ McpIdle
                /\ CsvIdle /\ SegIdle /\ BasicIdle /\ MultiIdle
SpecRequest == InitRequest /\ [][NextRequest]_vars

InitCsv == InitCsvVars /\ ParseIdle /\ ExtractIdle /\ McpIdle /\ RequestIdle
               /\ SegIdle /\ BasicIdle /\ MultiIdle
NextCsv == ExportToCsv
SpecCsv == InitCsv /\ [][NextCsv]_vars

InitSeg == InitSegVars /\ ParseIdle /\ ExtractIdle /\ McpIdle /\ RequestIdle
               /\ CsvIdle /\ BasicIdle /\ MultiIdle
NextSeg == ExtractSections
SpecSeg == InitSeg /\ [][NextSeg]_vars

InitBasic == InitBasicVars /\ ParseIdle /\ ExtractIdle /\ McpIdle /\ RequestIdle
                 /\ CsvIdle /\ SegIdle /\ MultiIdle
NextBasic == ExtractBasicData
SpecBasic == InitBasic /\ [][NextBasic]_vars

InitLifecycle == InitLifecycleVars /\ ParseIdle /\ ExtractIdle /\ RequestIdle
                     /\ CsvIdle /\ SegIdle /\ BasicIdle /\ MultiIdle
SpecLifecycle == InitLifecycle /\ [][NextLifecycle]_vars

InitConcurrent == InitConcurrentVars /\ ParseIdle /\ ExtractIdle /\ RequestIdle
                      /\ CsvIdle /\ SegIdle /\ BasicIdle /\ MultiIdle
SpecConcurrent == InitConcurrent /\ [][NextConcurrent]_vars

InitMulti == InitMultiVars /\ ParseIdle /\ ExtractIdle /\ McpIdle /\ RequestIdle
                 /\ CsvIdle /\ SegIdle /\ BasicIdle
SpecMulti == InitMulti /\ [][NextMulti]_vars

-----------------------------------------------------------------------------
(***************************************************************************)
(* Properties of extractWithAI and parseFromResponse                       *)
(***************************************************************************)
Signatures == {SigJustAMoment, SigCheckingYourBrowser}

\* the text holds one of the challenge signatures somewhere
HasSignature(text) ==
    \E sig \in Signatures : \E pre, post \in 0..Len(text) :
        /\ pre + Len(sig) + post = Len(text)
        /\ \A k \in 1..Len(sig) : text[pre + k] = sig[k]

BelowThreshold == Len(content) < (IF nodeEnvTest THEN 0 ELSE MinContentLength)
Blocked == HasSignature(content) \/ HasSignature(title) \/ BelowThreshold

RECURSIVE AllItems(_)
AllItems(outs) ==
    IF outs = <<>> THEN <<>>
    ELSE (IF Head(outs).rejected \/ Head(outs).out.isNull THEN <<>>
          ELSE Head(outs).out.items) \o AllItems(Tail(outs))

\* the elements of s that no earlier element of s equals
RECURSIVE FirstOccurrences(_, _)
FirstOccurrences(s, i) ==
    IF i > Len(s) THEN <<>>
    ELSE (IF \E j \in 1..(i - 1) : s[j] = s[i] THEN <<>> ELSE <<s[i]>>)
         \o FirstOccurrences(s, i + 1)

\* the aggregation loop run over a list of chunk outputs
RECURSIVE AggregateAll(_, _)
AggregateAll(acc, outs) ==
    IF outs = <<>> THEN acc
    ELSE AggregateAll(
             IF Head(outs).rejected \/ Head(outs).out.isNull THEN acc
             ELSE AggregateItems(acc.agg, acc.seen, Head(outs).out.items),
             Tail(outs))

\* C2: when the inference call for one chunk rejects, every other chunk is
\* still sent and its records aggregated; the extraction fails only if no
\* chunk produced a record.
C2_PerChunkIsolation ==
    (xpc = "done" /\ sent # <<>>) =>
        /\ Len(sent) = Len(Chunks(content))
        /\ xresult.kind = "thrown" => AllItems(sent) = <<>>

\* C4: the aggregated list holds no two records with the same key, holds the
\* records in the order of their first occurrence over the chunks, and
\* aggregating the chunk outputs twice over gives the list of aggregating
\* them once.
C4_FirstOccurrenceDedup ==
    /\ \A i, j \in 1..Len(aggregated) :
          i # j => JsonStringify(aggregated[i]) # JsonStringify(aggregated[j])
    /\ aggregated = FirstOccurrences(AllItems(sent), 1)
    /\ AggregateAll([agg |-> <<>>, seen |-> {}], sent \o sent).agg = aggregated
    /\ xresult.kind = "returned" => xresult.records = aggregated \/ sent = <<>>

C4_Witness ==
    /\ xpc = "done"
    /\ xresult.kind = "returned"
    /\ Len(aggregated) >= 2
    /\ Len(AllItems(sent)) > Len(aggregated)
    /\ Len(sent) >= 2

\* the pairs of an object ordered by key
KeyOrder == <<"n", "p">>
RECURSIVE SortedPairs(_, _)
SortedPairs(ps, k) ==
    IF k > Len(KeyOrder) THEN <<>>
    ELSE (IF KeyIndex(ps, KeyOrder[k], 1) = 0 THEN <<>>
          ELSE <<ps[KeyIndex(ps, KeyOrder[k], 1)]>>) \o SortedPairs(ps, k + 1)

\* key-sorted JSON of a record
CanonicalKey(v) ==
    IF v.kind = "obj" THEN JsonStringify(ObjV(SortedPairs(v.pairs, 1)))
    ELSE JsonStringify(v)

\* C5: the aggregated list never holds two records that have the same keys
\* with the same values, whatever the order of their keys.
C5_CanonicalKeyDedup ==
    \A i, j \in 1..Len(aggregated) :
        i # j => CanonicalKey(aggregated[i]) # CanonicalKey(aggregated[j])

ArraySegments == {SegArrA, SegArrA2, SegArrBA, SegEmptyArr}

\* C6: of a response holding a valid bare array and then a second array
\* after the label 'Result:', parseFromResponse returns the records of the
\* bare array.
C6_BareArrayWins ==
    \A a, b \in ArraySegments :
        (ppc = "done" /\ aiResponse = a \o SegResult \o b)
            => parseResult = Items(JsonParse(a).val.elems)

-----------------------------------------------------------------------------
(***************************************************************************)
(* Properties of McpClientService                                          *)
(***************************************************************************)
\* the first iteration i at which P(i) holds, 0 if there is none up to n
FirstIter(P(_), n) ==
    IF \E i \in 1..n : P(i) THEN Min({i \in 1..n : P(i)}) ELSE 0

\* the scroll loop of call k is over and the loop ran to its own end
LoopOver(k) == k.op = "scrape" /\ k.pc = "evaluate" /\ k.opts.maxScrolls > 0

ScrollEvents(k) == SelectSeq(k.log, LAMBDA e : e.ev = "scrollTo")

\* C3 as stated: the loop stops at the first iteration i with
\* height(i) = height(i-1), else runs exactly maxScrolls iterations, and
\* never scrolls more than maxScrolls times.  heights[1] is the height the
\* first scroll saw, heights[i+1] the height at the check of iteration i.
C3_StopsAtFirstEqualHeight ==
    \A c \in AllCallers :
        LET k == call[c]
            n == Len(k.heights) - 1
            Equal(i) == k.heights[i + 1] = k.heights[i]
        IN  /\ Len(ScrollEvents(k)) <= k.opts.maxScrolls
            /\ LoopOver(k) =>
                 k.iter = IF FirstIter(Equal, n) # 0 THEN FirstIter(Equal, n)
                          ELSE k.opts.maxScrolls

\* C3, amended: the loop stops at the first iteration i with
\* height(i) <= height(i-1) + 10 (no grace iteration), else runs exactly
\* maxScrolls iterations, and never scrolls more than maxScrolls times.
C3_StopsAtFirstSmallGrowth ==
    \A c \in AllCallers :
        LET k == call[c]
            n == Len(k.heights) - 1
            Small(i) == k.heights[i + 1] <= k.heights[i] + Epsilon
        IN  /\ Len(ScrollEvents(k)) <= k.opts.maxScrolls
            /\ k.iter <= k.opts.maxScrolls
            /\ LoopOver(k) =>
                 /\ n = k.iter
                 /\ \A i \in 1..(n - 1) : ~Small(i)
                 /\ Small(n) \/ n = k.opts.maxScrolls

C3_Witness ==
    \E c \in AllCallers :
        LET k == call[c]
        IN  /\ LoopOver(k)
            /\ k.opts.maxScrolls = MaxScrolls
            /\ k.iter = 1
            /\ k.heights[2] > k.heights[1]

GotoEvents == {"goto:networkidle2", "goto:domcontentloaded", "goto:load"}
Gotos(k) == SelectSeq(k.log, LAMBDA e : e.ev \in GotoEvents)

\* the position in the log of the fallback navigation, 0 if there is none
FallbackAt(k) ==
    IF \E i \in 1..Len(k.log) : k.log[i].ev = "goto:load"
    THEN Min({i \in 1..Len(k.log) : k.log[i].ev = "goto:load"}) ELSE 0

\* C7 as stated: if the first page.goto fails, one fallback page.goto with
\* waitUntil 'load' is attempted, the call fails only if that fallback fails
\* too, page.goto is invoked at most twice, and a successful fallback yields
\* success = true.
C7_RetryOnceThenSucceed ==
    \A c \in AllCallers :
        LET k == call[c]
            g == Gotos(k)
        IN  /\ Len(g) <= 2
            /\ (k.pc = "done" /\ Len(g) >= 1 /\ ~g[1].ok) =>
                  /\ Len(g) = 2
                  /\ g[2].ev = "goto:load"
                  /\ k.result.state = "rejected" => ~g[2].ok
                  /\ g[2].ok => k.result = Resolved(TRUE)

\* C7, amended: if the first page.goto fails, one fallback page.goto with
\* waitUntil 'load' is attempted; page.goto is invoked at most twice; the
\* navigation is fatal only if the fallback fails too; after a successful
\* fallback the call yields success = true unless a later step (scroll,
\* content evaluation, page close) fails.
C7_RetryOnce ==
    \A c \in AllCallers :
        LET k == call[c]
            g == Gotos(k)
            f == FallbackAt(k)
        IN  /\ Len(g) <= 2
            /\ (Len(g) >= 1 /\ ~g[1].ok /\ k.pc # "goto2") =>
                  Len(g) = 2 /\ g[2].ev = "goto:load" /\ g[1].ev # "goto:load"
            /\ k.raised = "navigation" => Len(g) = 2 /\ ~g[2].ok
            /\ (k.pc = "done" /\ Len(g) = 2 /\ g[2].ok) =>
                  \/ k.result = Resolved(TRUE)
                  \/ \E i \in (f + 1)..Len(k.log) :
                        /\ ~k.log[i].ok
                        /\ k.log[i].ev \in {"scrollTo", "canScrollMore",
                                            "evaluate", "page.close"}

C7_Witness ==
    \E c \in AllCallers :
        LET k == call[c]
        IN  /\ k.pc = "done"
            /\ Len(Gotos(k)) = 2
            /\ ~Gotos(k)[1].ok
            /\ Gotos(k)[2].ok
            /\ k.result = Resolved(TRUE)

\* the scrapeWebsite call that opened page p has completed
Finished(p) ==
    ~\E c \in AllCallers : call[c].op = "scrape" /\ call[c].page = p
                           /\ call[c].pc # "done"

C9_CleanupNeverMasks ==
    \A c \in AllCallers :
        LET k == call[c]
        IN  k.pc = "done" =>
              /\ k.op \in {"close", "cleanup"} => k.result.state = "resolved"
              /\ (k.op = "scrape" /\ k.raised # "") =>
                    k.result.state = "rejected" /\ k.result.cause = k.raised

\* C10: each scrapeWebsite call runs in a browser context of its own: the
\* pages of two different calls never live in the same context.
C10_FreshContextPerCall ==
    \A p, q \in 1..Len(pages) :
        pages[p].callId # pages[q].callId => pages[p].context # pages[q].context

LaunchEvents(k) == SelectSeq(k.log, LAMBDA e : e.ev = "launch")
PageEvents(k) == SelectSeq(k.log, LAMBDA e : e.ev \in {"newPage", "page.close"})

-----------------------------------------------------------------------------
(***************************************************************************)
(* Properties of processPromptRequest                                      *)
(***************************************************************************)
Invoked(method) == \E i \in 1..Len(rlog) : rlog[i] = method

\* ollamaService.processPrompt was reached, by the analysis of
\* scrapeAndAnalyze or by the extraction
ProcessPromptInvoked == aiCalls > 0 \/ Invoked("analyzeScrapedContent")

\* C12: when mcpClient.scrapeWebsite fails, parseContent, processPrompt and
\* exportToCsv are never invoked for the request, and processPromptRequest
\* ends with success = false and data = [].
C12_AcquisitionFailureShortCircuits ==
    acquisition.state = "rejected" =>
        /\ rpc = "done"
        /\ ~Invoked("parseContent")
        /\ ~ProcessPromptInvoked
        /\ ~Invoked("extractWithAI") /\ xpc = "idle" /\ sent = <<>>
        /\ ~Invoked("exportToCsv") /\ csvCalls = <<>>
        /\ rresult.state = "resolved"
        /\ ~rresult.success
        /\ rresult.data = [kind |-> "array", records |-> <<>>]

C12_Witness ==
    /\ rpc = "done"
    /\ acquisition = [state |-> "rejected",
                      message |-> <<"Puppeteer scraping failed: ", "Network timeout">>]
    /\ isOllamaAvailable
    /\ ~rresult.success

\* extractWithAI was entered and gave no record: it returned the empty list
\* (gated as insufficient content) or it threw
ModelPathEmpty ==
    /\ Invoked("extractWithAI")
    /\ xpc = "done"
    /\ xresult.kind = "thrown" \/ xresult = Returned(<<>>)

\* C13: whenever the model path is gated as insufficient content, raises,
\* or returns zero records, the request does not end with an empty record
\* set: the records of a heuristic extractor are returned in their place.
C13_HeuristicFallback ==
    (rpc = "done" /\ ModelPathEmpty) =>
        /\ rresult.success
        /\ rresult.data.kind = "array"
        /\ rresult.data.records # <<>>

\* C14: when the request fails because the acquisition failed with cause
\* message M, the error string of the returned failure contains M.
C14_CausePreserved ==
    (rpc = "done" /\ acquisition.state = "rejected") =>
        /\ ~rresult.success
        /\ \A M \in Causes :
              (\E i \in 1..Len(acquisition.message) : acquisition.message[i] = M)
                  => \E j \in 1..Len(rresult.error) : rresult.error[j] = M

\* the export asked for by the request went through, or none was asked for
ExportWentThrough ==
    /\ rpc = "done"
    /\ rresult.state = "resolved"
    /\ rresult.outputFile = "file" \/ request.outputFormat = "json"

\* C15: when the model path yields n >= 1 deduplicated records and the
\* export succeeds, processPromptRequest returns success = true with data
\* equal to that list of n records, the list the CSV exporter was given and
\* whose length the message reports.
C15_ReturnsExtractedRecords ==
    (xpc = "done" /\ xresult.kind = "returned" /\ Len(xresult.records) >= 1
        /\ ExportWentThrough) =>
        /\ rresult.success
        /\ rresult.items = Len(xresult.records)
        /\ \A i \in 1..Len(csvCalls) : csvCalls[i] = xresult.records
        /\ rresult.data = [kind |-> "array", records |-> xresult.records]

FirstAt(method) ==
    IF Invoked(method) THEN Min({i \in 1..Len(rlog) : rlog[i] = method}) ELSE 0

ProbeSaidNo == Invoked("isAvailable:false") \/ Invoked("isAvailable:throws")

\* C17 as stated: isAvailable is called before any processPrompt call, and
\* if the probe returns false or throws, processPrompt is never invoked for
\* the request.
C17_ProbeGuardsModelPath ==
    /\ ProcessPromptInvoked => Invoked("isAvailable")
    /\ ProbeSaidNo => ~ProcessPromptInvoked

\* C17, amended: isAvailable is called before any processPrompt call; the
\* analysis of scrapeAndAnalyze runs only after its probe returned true; the
\* extraction is entered only after the probe of extractDataBasedOnPrompt
\* has settled, and outside the test environment only if that probe
\* returned true: when it returns false or throws there, extractWithAI is
\* not entered and the extraction makes no processPrompt call.
C17_ProbeBeforeModelPath ==
    LET a == FirstAt("analyzeScrapedContent")
        x == FirstAt("extractWithAI")
    IN  /\ ProcessPromptInvoked =>
              /\ FirstAt("isAvailable") # 0
              /\ a # 0 => FirstAt("isAvailable") < a
              /\ x # 0 => FirstAt("isAvailable") < x
        /\ a # 0 => FirstAt("isAvailable:true") \in 1..(a - 1)
        /\ aiCalls > 0 => x # 0
        /\ xpc # "idle" => x # 0
        /\ x # 0 =>
              /\ x >= 3
              /\ rlog[x - 2] = "isAvailable"
              /\ rlog[x - 1] \in {"isAvailable:true", "isAvailable:false",
                                  "isAvailable:throws"}
              /\ ~nodeEnvTest => rlog[x - 1] = "isAvailable:true"
        /\ (~nodeEnvTest /\ rlog # <<>>
              /\ rlog[Len(rlog)] \in {"isAvailable:false", "isAvailable:throws"}) =>
                 /\ rpc = "done"
                 /\ ~rresult.success
                 /\ xpc = "idle"
                 /\ aiCalls = 0

C17_Witness ==
    /\ ~nodeEnvTest
    /\ rpc = "done"
    /\ Invoked("analyzeScrapedContent")
    /\ rlog[Len(rlog)] = "isAvailable:throws"
    /\ aiCalls = 0
    /\ ~Invoked("extractWithAI")

-----------------------------------------------------------------------------
OfType(type) == SelectSeq(sections, LAMBDA sec : sec.type = type)
\* the p elements of the document whose trimmed text has more than 20
\* characters
LongParagraphs == SelectSeq(html, LAMBDA el : el.tag = "P" /\ el.text.len > 20)

\* C19: in every section list extractSections produces, a paragraph section
\* has trimmed text longer than 20 characters (a p of 15 or of exactly 20
\* characters is dropped, one of 25 is kept), a table section has text
\* longer than 50 characters, a list section has at least one item, and a
\* heading section has non-empty text.
C19_SectionLengthGates ==
    spc = "done" =>
        /\ \A i \in 1..Len(sections) :
              LET sec == sections[i]
              IN  /\ sec.type \in {"heading", "paragraph", "list", "table"}
                  /\ sec.type = "paragraph" => sec.content.pad = 0 /\ sec.content.len > 20
                  /\ sec.type = "table" => sec.content.pad = 0 /\ sec.content.len > 50
                  /\ sec.type = "list" =>
                        /\ Len(sec.items) >= 1
                        /\ \A k \in 1..Len(sec.items) : sec.items[k].len > 0
                  /\ sec.type = "heading" => sec.content.len > 0
        /\ Len(OfType("paragraph")) = Len(LongParagraphs)
        /\ \A i \in 1..Len(LongParagraphs) :
              OfType("paragraph")[i].content.len = LongParagraphs[i].text.len
        /\ \A j \in 1..Len(html) :
              LET kept == \E i \in 1..Len(sections) :
                             /\ sections[i].type = "paragraph"
                             /\ sections[i].content.len = html[j].text.len
              IN  /\ (html[j].tag = "P" /\ html[j].text.len \in {15, 20}) => ~kept
                  /\ (html[j].tag = "P" /\ html[j].text.len = 25) => kept

C19_Witness ==
    /\ spc = "done"
    /\ \E j \in 1..Len(html) : html[j] = Element("P", Text(1, 20), <<>>)
    /\ \E j \in 1..Len(html) : html[j] = Element("P", Text(0, 25), <<>>)
    /\ Len(sections) = 1
    /\ sections[1].content.len = 25

-----------------------------------------------------------------------------
\* the position in the log of the last successful page.goto, 0 if none
LastNavigation(k) ==
    LET at == {i \in 1..Len(k.log) : k.log[i].ev \in GotoEvents /\ k.log[i].ok}
    IN  IF at = {} THEN 0 ELSE Max(at)

\* the 10 s waits of the call that came after position i of its log
AntiBotWaitsAfter(k, i) ==
    {j \in (i + 1)..Len(k.log) : k.log[j].ev = "wait:10000"}

\* the call has read title, text and html of its page and not yet let go
\* of the page
ContentRead(k) ==
    /\ k.op = "scrape"
    /\ k.pc = "pageClose"
    /\ k.outcome = "success"

\* C20: after any successful navigation, first attempt or fallback, a page
\* whose title matches a challenge signature gets exactly one additional
\* fixed wait before its content is read; content is never read from a
\* challenge-titled page without that wait.
C20_AntiBotWaitBeforeRead ==
    \A c \in AllCallers :
        LET k == call[c]
        IN  (ContentRead(k) /\ pages[k.page].challenge) =>
                Cardinality(AntiBotWaitsAfter(k, LastNavigation(k))) = 1

-----------------------------------------------------------------------------
(***************************************************************************)
(* Properties of the chunk loop of extractWithAI                           *)
(***************************************************************************)
\* the chunks whose response no parsing strategy recovered
Unrecovered == {i \in 1..Len(sent) : ~sent[i].rejected /\ sent[i].out.isNull}

\* what came back for the other chunks, in chunk order
Recovered == SelectSeq(sent, LAMBDA e : e.rejected \/ ~e.out.isNull)

NoneRejected == \A i \in 1..Len(sent) : ~sent[i].rejected

\* C21: a chunk whose response no parsing strategy recovers contributes no
\* record and does not end the extraction: the next chunk is still sent, and
\* the records recovered from the other chunks are what is returned.
C21_UnparsedChunkSkipped ==
    Unrecovered # {} =>
        /\ aggregated = AggregateAll([agg |-> <<>>, seen |-> {}], Recovered).agg
        /\ \A i \in Unrecovered :
              i < Len(Chunks(content)) =>
                  /\ aiCalls >= i + 1
                  /\ Len(sent) > i \/ xpc = "awaiting"
        /\ (xpc = "done" /\ NoneRejected /\ AllItems(Recovered) # <<>>) =>
              /\ Len(sent) = Len(Chunks(content))
              /\ xresult = Returned(FirstOccurrences(AllItems(Recovered), 1))

C21_Witness ==
    /\ xpc = "done"
    /\ 1 \in Unrecovered
    /\ Len(sent) = 2
    /\ xresult.kind = "returned"
    /\ Len(xresult.records) > 0

\* ceil(a / b)
CeilDiv(a, b) == (a + b - 1) \div b

\* C22: the chunks of a text are contiguous windows without overlap: in
\* order they concatenate to the text, each holds between 1 and ChunkSize
\* characters, there are ceil(L / ChunkSize) of them, and without a failure
\* processPrompt is called exactly once per chunk, in chunk order.
C22_ChunkingPartitions ==
    LET cs == Chunks(content)
        L  == Len(content)
    IN  /\ Len(cs) = CeilDiv(L, ChunkSize)
        /\ Concat(cs) = content
        /\ \A k \in 1..Len(cs) :
              /\ Len(cs[k]) >= 1
              /\ Len(cs[k]) <= ChunkSize
              /\ cs[k] = SubSeq(content, (k - 1) * ChunkSize + 1,
                                (k - 1) * ChunkSize + Len(cs[k]))
        /\ Len(sent) <= Len(cs)
        /\ \A i \in 1..Len(sent) : sent[i].chunk = cs[i]
        /\ aiCalls = Len(sent) + (IF xpc = "awaiting" THEN 1 ELSE 0)
        /\ (xpc = "done" /\ ~Blocked /\ NoneRejected) =>
              /\ Len(sent) = Len(cs)
              /\ aiCalls = Len(cs)

C22_Witness ==
    /\ xpc = "done"
    /\ NoneRejected
    /\ Len(content) % ChunkSize # 0
    /\ Len(Chunks(content)) >= 2
    /\ Len(sent) = Len(Chunks(content))
    /\ aiCalls = Len(sent)

-----------------------------------------------------------------------------
(***************************************************************************)
(* Properties of extractBasicData                                          *)
(***************************************************************************)
\* s reads as an amount: digits or commas, then possibly a point, then digits
IsAmount(s) ==
    \E a \in 1..Len(s), d \in {0, 1} :
        /\ a + d <= Len(s)
        /\ \A k \in 1..a : s[k] \in {"1", ","}
        /\ d = 1 => s[a + 1] = "."
        /\ \A k \in (a + d + 1)..Len(s) : s[k] = "1"

\* the currency patterns in the order the rule names them: the four symbols,
\* then an amount followed by a currency code
CurrencySymbols == <<"$", "€", "£", "¥">>
NumPatterns == Len(CurrencySymbols) + 1

\* s is a price in the sense of pattern k
IsPrice(s, k) ==
    IF k <= Len(CurrencySymbols)
    THEN Len(s) >= 2 /\ s[1] = CurrencySymbols[k] /\ IsAmount(Tail(s))
    ELSE \E a \in 1..(Len(s) - 1) :
            /\ IsAmount(SubSeq(s, 1, a))
            /\ \A j \in (a + 1)..(Len(s) - 1) : s[j] = " "
            /\ s[Len(s)] = "USD"

\* where in t a price of pattern k stands
Occurrences(t, k) ==
    {w \in (1..Len(t)) \X (1..Len(t)) :
        w[1] <= w[2] /\ IsPrice(SubSeq(t, w[1], w[2]), k)}

\* the first of them: the leftmost, taken as far as it extends
FirstOccurrence(t, k) ==
    LET w == CHOOSE w \in Occurrences(t, k) :
                 \A v \in Occurrences(t, k) :
                     w[1] < v[1] \/ (w[1] = v[1] /\ w[2] >= v[2])
    IN  SubSeq(t, w[1], w[2])

IsSubstring(s, t) ==
    \E i \in 1..(Len(t) + 1), j \in 0..Len(t) : s = SubSeq(t, i, j)

PriceNotFound == <<"Price not found">>

\* what the rule gives for a section text
RulePrice(t) ==
    LET matching == {k \in 1..NumPatterns : Occurrences(t, k) # {}}
    IN  IF matching = {} THEN PriceNotFound
        ELSE FirstOccurrence(t, CHOOSE k \in matching : \A m \in matching : k <= m)

PriceRequested == \E f \in 1..Len(parsedPrompt) : parsedPrompt[f] = "price"

\* C23: with the field 'price' requested, the price of each section's record
\* is the first match in the section text of the first currency pattern that
\* matches at all, or 'Price not found' when none matches; it is always a
\* substring of the section text or that sentinel.
C23_PriceRule ==
    (bpc = "done" /\ PriceRequested) =>
        \A k \in 1..Len(scrapedData.content.sections) :
            LET t == scrapedData.content.sections[k]
                price == Get(bdata[k], "price")
            IN  /\ price = BText(RulePrice(t))
                /\ price.text = PriceNotFound \/ IsSubstring(price.text, t)

C23_Witness ==
    /\ bpc = "done"
    /\ PriceRequested
    /\ \E k \in 1..Len(scrapedData.content.sections) :
          /\ scrapedData.content.sections[k] = <<"€", "1", " ", "$", "1", ",">>
          /\ Get(bdata[k], "price") = BText(<<"$", "1", ",">>)
    /\ \E k \in 1..Len(scrapedData.content.sections) :
          Get(bdata[k], "price") = BText(PriceNotFound)

\* the sections of the document handed to extractBasicData
DocSections ==
    IF scrapedData.content.present THEN scrapedData.content.sections ELSE <<>>

\* a record of the section pass carries the index of its section, the
\* whole-document record carries none
IsSectionRecord(item) == Get(item, "index") # NotSet

\* C24: extractBasicData gives one record per section, in section order,
\* when the document has a section; it gives the single whole-document
\* record exactly when the section pass gave no record; it never gives an
\* empty list.
C24_StrategySelection ==
    bpc = "done" =>
        /\ bdata # <<>>
        /\ Len(DocSections) >= 1 =>
              /\ Len(bdata) = Len(DocSections)
              /\ \A k \in 1..Len(bdata) :
                    /\ Get(bdata[k], "index") = BNum(k - 1)
                    /\ bdata[k] = SectionFields(
                           << <<"index", BNum(k - 1)>>,
                              <<"url", BText(scrapedData.url)>>,
                              <<"scraped_at", BText(Now)>> >>,
                           parsedPrompt, scrapedData, DocSections[k])
        /\ (\E k \in 1..Len(bdata) : ~IsSectionRecord(bdata[k]))
              <=> Len(DocSections) = 0
        /\ Len(DocSections) = 0 =>
              /\ Len(bdata) = 1
              /\ bdata[1] = BasicItem(scrapedData, parsedPrompt)

C24_Witness ==
    /\ bpc = "done"
    /\ Len(DocSections) = 2
    /\ DocSections[1] # DocSections[2]
    /\ Len(bdata) = 2
    /\ \A k \in 1..2 : Get(bdata[k], "price") = BText(PriceNotFound)

-----------------------------------------------------------------------------
(***************************************************************************)
(* Properties of the CSV export                                            *)
(***************************************************************************)
\* the keys of the records of data, record by record, in member order
KeysInOrder ==
    Concat([i \in 1..Len(data) |->
               IF data[i].kind = "obj"
               THEN [j \in 1..Len(data[i].pairs) |-> CsvKey[data[i].pairs[j]]]
               ELSE <<>>])

\* exportToCsv got as far as generating the content and writing it
ContentWritten ==
    /\ cpc = "done"
    /\ data # <<>>
    /\ cresult # ExportFailed("mkdir")
    /\ cresult # ExportFailed("write")

\* C25: the header is the union of the keys of the records in first-seen
\* order, every data row has as many fields as the header, with an empty
\* field where the record has no value, and there is such a row for every
\* item of data, items that are no objects included.
C25_CsvShape ==
    ContentWritten =>
        /\ cresult.state = "returned"
        /\ Len(files) = 1
        /\ LET rows == files[1].content
               header == rows[1]
           IN  /\ header = FirstOccurrences(KeysInOrder, 1)
               /\ Len(rows) = Len(data) + 1
               /\ \A r \in 2..Len(rows) :
                     /\ Len(rows[r]) = Len(header)
                     /\ \A h \in 1..Len(header) :
                           (data[r - 1].kind = "obj"
                               /\ \A j \in 1..Len(data[r - 1].pairs) :
                                     CsvKey[data[r - 1].pairs[j]] # header[h])
                               => rows[r][h] = ""

-----------------------------------------------------------------------------
(***************************************************************************)
(* Properties of scrapeMultipleUrls                                        *)
(***************************************************************************)
\* C26: when the request of one url fails, the results of the urls whose
\* requests succeeded are still delivered to the caller of
\* scrapeMultipleUrls.
C26_FailureIsolated ==
    (mpc = "done" /\ \A i \in 1..Len(urls) : ~Running(tasks[i])) =>
        \A i \in 1..Len(urls) :
            tasks[i].pc = "fulfilled" =>
                /\ mresult.state = "returned"
                /\ \E k \in 1..Len(mresult.results) :
                      mresult.results[k] = ResultOf(urls[i])

-----------------------------------------------------------------------------
(***************************************************************************)
(* Properties of the browser connection of McpClientService                *)
(***************************************************************************)
\* the calls that stand at their await of puppeteer.launch
Launching == {c \in AllCallers : call[c].pc \in {"launch", "initLaunch"}}

OpenBrowsers == {b \in 1..Len(browsers) : browsers[b] = "open"}

\* C27: however concurrent scrapeWebsite calls interleave on a service that
\* is not connected yet, puppeteer.launch is not invoked a second time, and
\* every launched browser stays the one this.browser refers to, which is the
\* one close() closes.
C27_SingleBrowser ==
    /\ Cardinality(Launching) <= 1
    /\ Cardinality(OpenBrowsers) <= 1
    /\ \A b \in OpenBrowsers : browser = b

\* C28: isConnected implies a browser; initialize() launches nothing when
\* connected; a close() that succeeded leaves this.browser null and
\* isConnected false, and a scrapeWebsite that finds them so launches a
\* browser.
C28_ConnectionState ==
    /\ [](isConnected => browser # 0)
    /\ [][\A c \in AllCallers :
            /\ (call[c].pc = "idle" /\ call'[c].op = "initialize" /\ isConnected)
                  => (call'[c].pc = "done" /\ call'[c].result = Resolved(TRUE))
            /\ (call[c].pc = "browserClose" /\ call'[c].pc = "done"
                   /\ call'[c].raised = "")
                  => (browser' = 0 /\ ~isConnected')
            /\ (call[c].pc = "idle" /\ call'[c].op = "scrape" /\ browser = 0)
                  => call'[c].pc = "launch"
            /\ (call[c].pc = "launch" /\ call'[c].pc = "initialized")
                  => /\ Len(browsers') = Len(browsers) + 1
                     /\ browser' = Len(browsers')
                     /\ isConnected'
         ]_vars

C28_Witness ==
    /\ Len(browsers) = 2
    /\ browsers[1] = "closed"
    /\ browser = 2
    /\ isConnected
    /\ \E c \in AllCallers : call[c].op = "scrape" /\ call[c].pc = "initialized"

\* C29: isHealthy never rejects, returns false after any failure and when the
\* service is not connected, and has closed the page it opened when it
\* returns.
C29_HealthCheckClean ==
    \A c \in AllCallers :
        (call[c].op = "isHealthy" /\ call[c].pc = "done") =>
            /\ call[c].result.state = "resolved"
            /\ (call[c].brw = 0
                   \/ \E i \in 1..Len(call[c].log) : ~call[c].log[i].ok)
                  => ~call[c].result.success
            /\ call[c].page # 0 => ~pages[call[c].page].open

\* C30: an exportToCsv that is given an empty record list leaves the file
\* system as it found it: it creates no output directory and writes no file.
C30_EmptyExportLeavesNoTrace ==
    [][(cpc = "start" /\ cpc' = "done" /\ data = <<>>)
          => (dirExists' = dirExists /\ files' = files)]_vars

=============================================================================
